---------------------------- MODULE Spec2Model ----------------------------
(***************************************************************************)
(* Exact arithmetic over the Gaussian integers (ZInt / CInt), the doubled  *)
(* Hurwitz quaternions (HInt) and the integer octonions (OInt) of          *)
(* entropy_hpc: Euclidean division, gcd / xgcd, normalisation and the      *)
(* Fano-plane product.                                                     *)
(*                                                                         *)
(* Machine integers keep a width.  TLC computes with 32-bit integers, so   *)
(* the widths are scaled: a component (Rust i32) has I32_BITS bits and the *)
(* widened accumulator (Rust i64 / u64) has twice as many.  Every          *)
(* wrapping operation, narrowing cast and range check of the source is     *)
(* kept, relative to these widths.                                         *)
(*                                                                         *)
(* Plain Rust arithmetic (+, -, unary -, abs) panics on overflow when the  *)
(* build has overflow checks and wraps when it has not; the variable       *)
(* overflow_checks holds the build's choice.  Value operators compute the  *)
(* wrapping result; the *_overflows operators say when a checked build     *)
(* panics instead.                                                         *)
(*                                                                         *)
(* f64 keeps its finite significand, scaled like the integer widths: the   *)
(* conversion `as f64` and the division round to F64_BITS significant      *)
(* bits (ties to even) before round() takes the nearest integer, halves    *)
(* away from zero.                                                         *)
(*                                                                         *)
(* The batch engine (src/simd/simd_engine.rs) picks its path at run time:  *)
(* the variable avx2 holds the answer of the feature detection.  A vector  *)
(* is eight lanes of one component each.  The scalar functions have no     *)
(* vector path, and their specifications leave avx2 FALSE.                 *)
(***************************************************************************)
EXTENDS Integers, Sequences, FiniteSets, TLC

VARIABLES
    overflow_checks, \* TRUE: plain arithmetic panics on overflow; FALSE: wraps
    avx2,            \* TRUE: is_x86_feature_detected!("avx2") on an x86_64 target
    op,              \* the function under execution
    pc,              \* position in it: "call", "loop", "done", "panic"
    a, b,            \* the two arguments (HInt/OInt gcd mutates them)
    x, y,            \* ZInt::gcd locals
    old_r, r,        \* ZInt::xgcd locals
    old_s, s,
    old_t, t,
    out,             \* the returned value
    seen             \* history: the (a, b) pairs already met at the loop head

vars == <<overflow_checks, avx2, op, pc, a, b, x, y, old_r, r, old_s, s, old_t, t, out, seen>>

----------------------------------------------------------------------------
(* Bounds of the model *)

\* Width of a component, standing for the 32 bits of i32.
I32_BITS == 8
\* The small components of Gaussian-integer inputs are in -MaxZ..MaxZ.
MaxZ == 3
\* The small stored components of quaternion inputs are in -MaxH..MaxH.
MaxH == 2
\* The coefficients of the basis elements in octonion inputs are in -MaxO..MaxO.
MaxO == 1
\* The turns of the loop of OInt::gcd that the model follows.
MaxIter == 3
\* Fractions: the small denominators are 0 .. MaxDen.
MaxDen == 6

----------------------------------------------------------------------------
(* Machine integers *)

I32_MAX == 2^(I32_BITS - 1) - 1
I32_MIN == -(2^(I32_BITS - 1))
I64_MAX == 2^(2 * I32_BITS - 1) - 1
I64_MIN == -(2^(2 * I32_BITS - 1))

InI32(v) == I32_MIN <= v /\ v <= I32_MAX
InI64(v) == I64_MIN <= v /\ v <= I64_MAX

\* Two's-complement wrap of v to n bits.
WrapBits(v, n) ==
    LET m == v % (2^n) IN IF m >= 2^(n - 1) THEN m - 2^n ELSE m

\* i32 wrapping arithmetic and the `as i32` cast of an i64.
WrapI32(v) == WrapBits(v, I32_BITS)
\* i64 arithmetic in a build without overflow checks.
WrapI64(v) == WrapBits(v, 2 * I32_BITS)
\* `as u64` of an i64.
AsU64(v) == v % (2^(2 * I32_BITS))
\* `as i64` of a u64.
AsI64(v) == WrapBits(v, 2 * I32_BITS)

Abs(v) == IF v < 0 THEN -v ELSE v
Sign(v) == IF v < 0 THEN -1 ELSE 1

\* Rust integer division truncates toward zero.
TruncDiv(n, d) == Sign(n) * Sign(d) * (Abs(n) \div Abs(d))
\* n % d of Rust: the remainder of the truncated division, with the sign of n.
TruncRem(n, d) == n - d * TruncDiv(n, d)

\* The significand of f64: 53 bits beside the 64 of i64, scaled to the model's widths.
F64_BITS == (53 * I32_BITS) \div 32

\* The number of bits of v > 0.
BitLen(v) == CHOOSE n \in 1..30 : 2^(n - 1) <= v /\ v < 2^n

\* n / d to the nearest integer, ties to the even one (n >= 0, d > 0).
RoundTiesEven(n, d) ==
    LET q == n \div d
        r2 == 2 * (n % d)
    IN IF r2 > d \/ (r2 = d /\ q % 2 = 1) THEN q + 1 ELSE q

\* `as f64` of an integer: the nearest value of F64_BITS significant bits.
F64(v) ==
    IF v = 0 THEN 0
    ELSE LET len == BitLen(Abs(v))
         IN IF len <= F64_BITS THEN v
            ELSE Sign(v) * RoundTiesEven(Abs(v), 2^(len - F64_BITS)) * 2^(len - F64_BITS)

\* Long division: k more binary digits of rem / d (rem < d), as <<digits, remainder>>.
RECURSIVE FractionBits(_, _, _)
FractionBits(rem, d, k) ==
    IF k = 0 THEN << 0, rem >>
    ELSE LET bit == IF 2 * rem >= d THEN 1 ELSE 0
             rest == FractionBits(2 * rem - bit * d, d, k - 1)
         IN << bit * 2^(k - 1) + rest[1], rest[2] >>

\* (n / d).round() for f64 values n >= 0, d > 0: the quotient is rounded to
\* F64_BITS significant bits, then to the nearest integer, halves away from zero.
\* A quotient below 1/4 rounds to 0 whatever its significand.
F64DivRound(n, d) ==
    IF 4 * n < d THEN 0
    ELSE LET len == IF n >= d THEN BitLen(n \div d) ELSE IF 2 * n >= d THEN 0 ELSE -1
             k == F64_BITS - len
         IN IF k <= 0
            THEN RoundTiesEven(n, d * 2^(-k)) * 2^(-k)
            ELSE LET frac == FractionBits(n % d, d, k)
                     floor == (n \div d) * 2^k + frac[1]
                     m == IF 2 * frac[2] > d \/ (2 * frac[2] = d /\ floor % 2 = 1)
                          THEN floor + 1 ELSE floor
                 IN (2 * m + 2^k) \div 2^(k + 1)

\* Faulty rounding: the quotient is truncated toward zero instead of rounded.
RoundDiv_truncating(n, d) == Sign(n) * Sign(d) * (Abs(n) \div Abs(d))

\* (n as f64 / d as f64).round(): nearest integer, halves away from zero.
\* d = 0 gives an infinity (or NaN for 0/0), told apart by the caller's cast.
RoundDiv(n, d) == Sign(n) * Sign(d) * F64DivRound(Abs(F64(n)), Abs(F64(d)))

\* The nearest integer to the rational n / d, halves away from zero.
NearestInteger(n, d) == Sign(n) * Sign(d) * ((2 * Abs(n) + Abs(d)) \div (2 * Abs(d)))

\* `as i32` of an f64 saturates; NaN becomes 0.
SatI32(v) == IF v > I32_MAX THEN I32_MAX ELSE IF v < I32_MIN THEN I32_MIN ELSE v

\* ((n as f64) / (d as f64)).round() as i32
RoundDivI32(n, d) ==
    IF d = 0
    THEN (IF n = 0 THEN 0 ELSE IF n > 0 THEN I32_MAX ELSE I32_MIN)
    ELSE SatI32(RoundDiv(n, d))

\* Unary minus and abs on i32 in a build without overflow checks.
NegI32(v) == WrapI32(-v)
AbsI32(v) == WrapI32(Abs(v))

----------------------------------------------------------------------------
(* Rank 2: ZInt (src/zint.rs), identical to CInt (src/types/cint.rs) *)

ZInt_new(ca, cb) == [a |-> ca, b |-> cb]
ZInt_zero == ZInt_new(0, 0)
ZInt_one == ZInt_new(1, 0)

ZInt_is_zero(self) == self.a = 0 /\ self.b = 0

ZInt_conj(self) == [a |-> self.a, b |-> NegI32(self.b)]
ZInt_conj_overflows(self) == self.b = I32_MIN

\* (a2 + b2) as U64, with a2 + b2 an i64 sum
ZInt_norm_squared(self) == AsU64(WrapI64(self.a * self.a + self.b * self.b))
ZInt_norm_squared_overflows(self) == ~InI64(self.a * self.a + self.b * self.b)

ZInt_add(self, rhs) ==
    [a |-> WrapI32(self.a + rhs.a), b |-> WrapI32(self.b + rhs.b)]

ZInt_sub(self, rhs) ==
    [a |-> WrapI32(self.a - rhs.a), b |-> WrapI32(self.b - rhs.b)]

\* The widened components of the product.
ZInt_mul_real(self, rhs) == WrapI64(self.a * rhs.a - self.b * rhs.b)
ZInt_mul_imag(self, rhs) == WrapI64(self.a * rhs.b + self.b * rhs.a)

\* The explicit range check: panic!("ZInt multiplication overflow").
ZInt_mul_panics(self, rhs) ==
    \/ ZInt_mul_real(self, rhs) > I32_MAX \/ ZInt_mul_real(self, rhs) < I32_MIN
    \/ ZInt_mul_imag(self, rhs) > I32_MAX \/ ZInt_mul_imag(self, rhs) < I32_MIN

ZInt_mul(self, rhs) ==
    [a |-> WrapI32(ZInt_mul_real(self, rhs)), b |-> WrapI32(ZInt_mul_imag(self, rhs))]

\* Faulty associates: the second one is the reflection (b, a), not i * self.
ZInt_associates_reflected(self) ==
    << self,
       ZInt_new(self.b, self.a),
       ZInt_new(NegI32(self.a), NegI32(self.b)),
       ZInt_new(self.b, NegI32(self.a)) >>

ZInt_associates(self) ==
    << self,
       ZInt_new(NegI32(self.b), self.a),
       ZInt_new(NegI32(self.a), NegI32(self.b)),
       ZInt_new(self.b, NegI32(self.a)) >>
ZInt_associates_overflows(self) == self.a = I32_MIN \/ self.b = I32_MIN

\* The least index of a nonempty set of indices: the first match of a `for`.
FirstIndex(S) == CHOOSE i \in S : \A j \in S : i <= j

ZInt_normalize(self) ==
    IF ZInt_is_zero(self) THEN self
    ELSE IF self.a = 0 /\ self.b # 0 THEN ZInt_new(AbsI32(self.b), 0)
    ELSE IF self.a > 0 /\ self.b >= 0 THEN self
    ELSE LET assocs == ZInt_associates(self)
             first_quadrant == {i \in 1..4 : assocs[i].a > 0 /\ assocs[i].b >= 0}
             positive_real == {i \in 1..4 : assocs[i].a > 0}
         IN IF first_quadrant # {} THEN assocs[FirstIndex(first_quadrant)]
            ELSE IF positive_real # {} THEN assocs[FirstIndex(positive_real)]
            ELSE assocs[1]
ZInt_normalize_overflows(self) ==
    /\ ~ZInt_is_zero(self)
    /\ IF self.a = 0 THEN self.b = I32_MIN
       ELSE ~(self.a > 0 /\ self.b >= 0) /\ ZInt_associates_overflows(self)

\* div_rem's widened numerators, self * conj(d).
ZInt_div_num_a(self, d) ==
    WrapI64(self.a * ZInt_conj(d).a - self.b * ZInt_conj(d).b)
ZInt_div_num_b(self, d) ==
    WrapI64(self.a * ZInt_conj(d).b + self.b * ZInt_conj(d).a)

ZInt_div_rem_q(self, d) ==
    LET norm_d == AsI64(ZInt_norm_squared(d))
    IN ZInt_new(RoundDivI32(ZInt_div_num_a(self, d), norm_d),
                RoundDivI32(ZInt_div_num_b(self, d), norm_d))

\* The (q, r) of Ok((q, r)), for d nonzero.
ZInt_div_rem(self, d) ==
    LET q == ZInt_div_rem_q(self, d)
    IN [q |-> q, r |-> ZInt_sub(self, ZInt_mul(q, d))]

\* div_rem panics: in q * d, or in plain arithmetic of a checked build.
ZInt_div_rem_panics(self, d, checks) ==
    \/ ZInt_mul_panics(ZInt_div_rem_q(self, d), d)
    \/ checks /\ \/ ZInt_conj_overflows(d)
                 \/ ZInt_norm_squared_overflows(d)
                 \/ ~InI64(self.a * ZInt_conj(d).b + self.b * ZInt_conj(d).a)

Ok(v) == [tag |-> "Ok", val |-> v]
Err(e) == [tag |-> "Err", err |-> e]
\* The value of a function that returns no Result.
Ret(v) == [tag |-> "Ret", val |-> v]
Panic == [tag |-> "Panic"]
None == [tag |-> "None"]

ZInt_div_rem_result(self, d, checks) ==
    IF ZInt_is_zero(d) THEN Err("DivisionByZero")
    ELSE IF ZInt_div_rem_panics(self, d, checks) THEN Panic
    ELSE Ok(ZInt_div_rem(self, d))

ZInt_div_exact(self, d, checks) ==
    LET res == ZInt_div_rem_result(self, d, checks)
    IN IF res.tag # "Ok" THEN res
       ELSE IF ZInt_is_zero(res.val.r) THEN Ok(res.val.q)
       ELSE Err("NotDivisible")

\* xgcd's coefficient update: let new_s = old_s - (q * s);
ZInt_xgcd_coeff(q, old_c, c) == ZInt_sub(old_c, ZInt_mul(q, c))

\* gcd's loop and final normalize, from the values of x and y on.
RECURSIVE ZInt_gcd_loop(_, _, _)
ZInt_gcd_loop(gx, gy, checks) ==
    IF ZInt_is_zero(gy)
    THEN IF checks /\ ZInt_normalize_overflows(gx) THEN Panic
         ELSE Ret(ZInt_normalize(gx))
    ELSE IF ZInt_div_rem_panics(gx, gy, checks) THEN Panic
         ELSE ZInt_gcd_loop(gy, ZInt_div_rem(gx, gy).r, checks)

\* ZInt::gcd as a function (its loop is also stepped by ZGcdIter below).
ZInt_gcd(ga, gb, checks) ==
    IF checks /\ (ZInt_normalize_overflows(ga) \/ ZInt_normalize_overflows(gb))
    THEN Panic
    ELSE ZInt_gcd_loop(ZInt_normalize(ga), ZInt_normalize(gb), checks)

----------------------------------------------------------------------------
(* Rank 2: the calls *)

\* Component values of the arguments: the small ones and the ends of the
\* component range.
ZComp == ((-MaxZ)..MaxZ) \cup {I32_MIN, I32_MIN + 1, I32_MAX}

ZValues == [a : ZComp, b : ZComp]

ZOps == {"ZInt::div_rem", "ZInt::gcd", "ZInt::xgcd"}

InitZ ==
    /\ overflow_checks \in BOOLEAN
    /\ avx2 = FALSE
    /\ op \in ZOps
    /\ pc = "call"
    /\ a \in ZValues /\ b \in ZValues
    /\ x = None /\ y = None
    /\ old_r = None /\ r = None
    /\ old_s = None /\ s = None
    /\ old_t = None /\ t = None
    /\ out = None
    /\ seen = <<>>

\* a.div_rem(b)
ZDivRem ==
    /\ op = "ZInt::div_rem" /\ pc = "call"
    /\ out' = ZInt_div_rem_result(a, b, overflow_checks)
    /\ pc' = IF out'.tag = "Panic" THEN "panic" ELSE "done"
    /\ UNCHANGED <<overflow_checks, avx2, op, a, b, x, y, old_r, r, old_s, s, old_t, t, seen>>

\* ZInt::gcd(a, b): let mut x = a.normalize(); let mut y = b.normalize();
ZGcdEnter ==
    /\ op = "ZInt::gcd" /\ pc = "call"
    /\ IF overflow_checks /\ (ZInt_normalize_overflows(a) \/ ZInt_normalize_overflows(b))
       THEN pc' = "panic" /\ out' = Panic /\ UNCHANGED <<x, y>>
       ELSE /\ x' = ZInt_normalize(a)
            /\ y' = ZInt_normalize(b)
            /\ pc' = "loop" /\ UNCHANGED out
    /\ UNCHANGED <<overflow_checks, avx2, op, a, b, old_r, r, old_s, s, old_t, t, seen>>

\* while !y.is_zero() { let (_, r) = x.div_rem(y).unwrap(); x = y; y = r; }
ZGcdIter ==
    /\ op = "ZInt::gcd" /\ pc = "loop"
    /\ ~ZInt_is_zero(y)
    /\ IF ZInt_div_rem_panics(x, y, overflow_checks)
       THEN pc' = "panic" /\ out' = Panic /\ UNCHANGED <<x, y>>
       ELSE /\ x' = y
            /\ y' = ZInt_div_rem(x, y).r
            /\ pc' = "loop" /\ UNCHANGED out
    /\ UNCHANGED <<overflow_checks, avx2, op, a, b, old_r, r, old_s, s, old_t, t, seen>>

\* x.normalize()
ZGcdReturn ==
    /\ op = "ZInt::gcd" /\ pc = "loop"
    /\ ZInt_is_zero(y)
    /\ IF overflow_checks /\ ZInt_normalize_overflows(x)
       THEN pc' = "panic" /\ out' = Panic
       ELSE pc' = "done" /\ out' = Ret(ZInt_normalize(x))
    /\ UNCHANGED <<overflow_checks, avx2, op, a, b, x, y, old_r, r, old_s, s, old_t, t, seen>>

\* ZInt::xgcd(a, b): if b.is_zero() { return (a.normalize(), one, zero); }
ZXgcdEarly ==
    /\ op = "ZInt::xgcd" /\ pc = "call"
    /\ ZInt_is_zero(b)
    /\ IF overflow_checks /\ ZInt_normalize_overflows(a)
       THEN pc' = "panic" /\ out' = Panic
       ELSE pc' = "done" /\ out' = Ret(<<ZInt_normalize(a), ZInt_one, ZInt_zero>>)
    /\ UNCHANGED <<overflow_checks, avx2, op, a, b, x, y, old_r, r, old_s, s, old_t, t, seen>>

\* The initialisation of xgcd's six locals.
ZXgcdEnter ==
    /\ op = "ZInt::xgcd" /\ pc = "call"
    /\ ~ZInt_is_zero(b)
    /\ old_r' = a /\ r' = b
    /\ old_s' = ZInt_one /\ s' = ZInt_zero
    /\ old_t' = ZInt_zero /\ t' = ZInt_one
    /\ pc' = "loop"
    /\ UNCHANGED <<overflow_checks, avx2, op, a, b, x, y, out, seen>>

\* One turn of xgcd's while !r.is_zero() loop.
ZXgcdIter ==
    /\ op = "ZInt::xgcd" /\ pc = "loop"
    /\ ~ZInt_is_zero(r)
    /\ LET q == ZInt_div_rem_q(old_r, r)
           remainder == ZInt_div_rem(old_r, r).r
       IN IF \/ ZInt_div_rem_panics(old_r, r, overflow_checks)
             \/ ZInt_mul_panics(q, s)
             \/ ZInt_mul_panics(q, t)
          THEN pc' = "panic" /\ out' = Panic /\ UNCHANGED <<old_r, r, old_s, s, old_t, t>>
          ELSE /\ old_r' = r
               /\ r' = remainder
               /\ old_s' = s
               /\ s' = ZInt_xgcd_coeff(q, old_s, s)
               /\ old_t' = t
               /\ t' = ZInt_xgcd_coeff(q, old_t, t)
               /\ pc' = "loop" /\ UNCHANGED out
    /\ UNCHANGED <<overflow_checks, avx2, op, a, b, x, y, seen>>

\* (old_r.normalize(), old_s, old_t)
ZXgcdReturn ==
    /\ op = "ZInt::xgcd" /\ pc = "loop"
    /\ ZInt_is_zero(r)
    /\ IF overflow_checks /\ ZInt_normalize_overflows(old_r)
       THEN pc' = "panic" /\ out' = Panic
       ELSE pc' = "done" /\ out' = Ret(<<ZInt_normalize(old_r), old_s, old_t>>)
    /\ UNCHANGED <<overflow_checks, avx2, op, a, b, x, y, old_r, r, old_s, s, old_t, t, seen>>

NextZ ==
    \/ ZDivRem
    \/ ZGcdEnter \/ ZGcdIter \/ ZGcdReturn
    \/ ZXgcdEarly \/ ZXgcdEnter \/ ZXgcdIter \/ ZXgcdReturn

SpecZ == InitZ /\ [][NextZ]_vars


----------------------------------------------------------------------------
(* Rank 4: HInt (src/hint.rs), components stored doubled *)

\* A widened accumulation t1 + t2 + t3 + t4 in i64, left to right: some
\* partial sum leaves i64, and a checked build panics there.
Acc4_overflows(t1, t2, t3, t4) ==
    ~InI64(t1 + t2) \/ ~InI64(t1 + t2 + t3) \/ ~InI64(t1 + t2 + t3 + t4)

\* The struct literal HInt { a, b, c, d }.
HInt_of(sa, sb, sc, sd) == [a |-> sa, b |-> sb, c |-> sc, d |-> sd]

\* HInt::new stores twice each argument.
HInt_new(na, nb, nc, nd) ==
    HInt_of(WrapI32(na * 2), WrapI32(nb * 2), WrapI32(nc * 2), WrapI32(nd * 2))

\* Faulty parity test: odd means a remainder of 1, which no negative number has.
HInt_from_halves_remainder_one(sa, sb, sc, sd) ==
    LET a_odd == TruncRem(sa, 2) = 1
        b_odd == TruncRem(sb, 2) = 1
        c_odd == TruncRem(sc, 2) = 1
        d_odd == TruncRem(sd, 2) = 1
    IN IF a_odd # b_odd \/ a_odd # c_odd \/ a_odd # d_odd
       THEN Err("InvalidHalfInteger")
       ELSE Ok(HInt_of(sa, sb, sc, sd))

\* from_halves accepts components of one parity (x % 2 != 0 is "odd").
HInt_from_halves(sa, sb, sc, sd) ==
    LET a_odd == TruncRem(sa, 2) # 0
        b_odd == TruncRem(sb, 2) # 0
        c_odd == TruncRem(sc, 2) # 0
        d_odd == TruncRem(sd, 2) # 0
    IN IF a_odd # b_odd \/ a_odd # c_odd \/ a_odd # d_odd
       THEN Err("InvalidHalfInteger")
       ELSE Ok(HInt_of(sa, sb, sc, sd))

HInt_zero == HInt_new(0, 0, 0, 0)

HInt_is_zero(self) == self.a = 0 /\ self.b = 0 /\ self.c = 0 /\ self.d = 0

HInt_conj(self) == HInt_of(self.a, NegI32(self.b), NegI32(self.c), NegI32(self.d))
HInt_conj_overflows(self) == I32_MIN \in {self.b, self.c, self.d}

\* a2 + b2 + c2 + d2, exactly.
HInt_norm_sum(self) == self.a * self.a + self.b * self.b + self.c * self.c + self.d * self.d
\* ((a2 + b2 + c2 + d2) / 4) as U64
HInt_norm_squared(self) == AsU64(TruncDiv(WrapI64(HInt_norm_sum(self)), 4))
HInt_norm_squared_overflows(self) ==
    Acc4_overflows(self.a * self.a, self.b * self.b, self.c * self.c, self.d * self.d)

HInt_neg(self) == HInt_of(NegI32(self.a), NegI32(self.b), NegI32(self.c), NegI32(self.d))
HInt_neg_overflows(self) == I32_MIN \in {self.a, self.b, self.c, self.d}

HInt_sub(self, other) ==
    HInt_of(WrapI32(self.a - other.a), WrapI32(self.b - other.b),
            WrapI32(self.c - other.c), WrapI32(self.d - other.d))
HInt_sub_overflows(self, other) ==
    \/ ~InI32(self.a - other.a) \/ ~InI32(self.b - other.b)
    \/ ~InI32(self.c - other.c) \/ ~InI32(self.d - other.d)

\* The four sums of the quaternion product, exactly.
HInt_mul_sums(self, other) ==
    [a |-> self.a * other.a - self.b * other.b - self.c * other.c - self.d * other.d,
     b |-> self.a * other.b + self.b * other.a + self.c * other.d - self.d * other.c,
     c |-> self.a * other.c - self.b * other.d + self.c * other.a + self.d * other.b,
     d |-> self.a * other.d + self.b * other.c - self.c * other.b + self.d * other.a]

\* Each sum is accumulated in i64, halved (a / 2) and narrowed by `as I32`,
\* without a range check.
HInt_mul(self, other) ==
    LET w == HInt_mul_sums(self, other)
    IN HInt_of(WrapI32(TruncDiv(WrapI64(w.a), 2)), WrapI32(TruncDiv(WrapI64(w.b), 2)),
               WrapI32(TruncDiv(WrapI64(w.c), 2)), WrapI32(TruncDiv(WrapI64(w.d), 2)))
HInt_mul_overflows(self, other) ==
    \/ Acc4_overflows(self.a * other.a, -(self.b * other.b), -(self.c * other.c), -(self.d * other.d))
    \/ Acc4_overflows(self.a * other.b, self.b * other.a, self.c * other.d, -(self.d * other.c))
    \/ Acc4_overflows(self.a * other.c, -(self.b * other.d), self.c * other.a, self.d * other.b)
    \/ Acc4_overflows(self.a * other.d, self.b * other.c, -(self.c * other.b), self.d * other.a)

\* (((n as f64) / (d_norm as f64 * 2.0)).round() * 2.0) as I32
HInt_div_q(n, d_norm) ==
    IF d_norm = 0
    THEN (IF n = 0 THEN 0 ELSE IF n > 0 THEN I32_MAX ELSE I32_MIN)
    ELSE SatI32(RoundDiv(n, d_norm * 2) * 2)

HInt_div_rem_q(self, d) ==
    LET d_norm == AsI64(HInt_norm_squared(d))
        num_prod == HInt_mul(self, HInt_conj(d))
    IN HInt_of(HInt_div_q(num_prod.a, d_norm), HInt_div_q(num_prod.b, d_norm),
               HInt_div_q(num_prod.c, d_norm), HInt_div_q(num_prod.d, d_norm))

\* The (q, r) of Ok((q, r)), for d nonzero.
HInt_div_rem(self, d) ==
    LET q == HInt_div_rem_q(self, d)
    IN [q |-> q, r |-> HInt_sub(self, HInt_mul(q, d))]

\* Plain arithmetic of div_rem that overflows: a checked build panics.
HInt_div_rem_panics(self, d, checks) ==
    /\ checks
    /\ \/ HInt_norm_squared_overflows(d)
       \/ HInt_conj_overflows(d)
       \/ HInt_mul_overflows(self, HInt_conj(d))
       \/ LET q == HInt_div_rem_q(self, d)
          IN \/ HInt_mul_overflows(q, d)
             \/ HInt_sub_overflows(self, HInt_mul(q, d))

HInt_div_rem_result(self, d, checks) ==
    IF HInt_is_zero(d) THEN Err("DivisionByZero")
    ELSE IF HInt_div_rem_panics(self, d, checks) THEN Panic
    ELSE Ok(HInt_div_rem(self, d))

\* normalize prefers a positive real part.
HInt_normalize(self) ==
    IF HInt_is_zero(self) THEN self
    ELSE IF self.a > 0 THEN self
    ELSE IF HInt_neg(self).a > 0 THEN HInt_neg(self)
    ELSE self
HInt_normalize_overflows(self) ==
    ~HInt_is_zero(self) /\ ~(self.a > 0) /\ HInt_neg_overflows(self)

----------------------------------------------------------------------------
(* Rank 4: the calls *)

HComp == (-MaxH)..MaxH

\* The valid values with small components (from_halves accepts them), and
\* the second argument of the documented call of gcd.
HValues ==
    {v \in [a : HComp, b : HComp, c : HComp, d : HComp] :
        HInt_from_halves(v.a, v.b, v.c, v.d).tag = "Ok"}
    \cup {HInt_new(2, 0, 0, 0)}

HOps == {"HInt::div_rem", "HInt::gcd"}

InitH ==
    /\ overflow_checks \in BOOLEAN
    /\ avx2 = FALSE
    /\ op \in HOps
    /\ pc = (IF op = "HInt::gcd" THEN "loop" ELSE "call")
    /\ a \in HValues /\ b \in HValues
    /\ x = None /\ y = None
    /\ old_r = None /\ r = None
    /\ old_s = None /\ s = None
    /\ old_t = None /\ t = None
    /\ out = None
    /\ seen = <<>>

\* a.div_rem(b)
HDivRem ==
    /\ op = "HInt::div_rem" /\ pc = "call"
    /\ out' = HInt_div_rem_result(a, b, overflow_checks)
    /\ pc' = IF out'.tag = "Panic" THEN "panic" ELSE "done"
    /\ UNCHANGED <<overflow_checks, avx2, op, a, b, x, y, old_r, r, old_s, s, old_t, t, seen>>

\* The pairs (a, b) met at the head of the loop, each recorded once.
Remember(hist, pair) ==
    IF \E i \in 1..Len(hist) : hist[i] = pair THEN hist ELSE Append(hist, pair)

\* while !b.is_zero() { let (_, r) = a.div_rem(b).unwrap_or((zero, a)); a = b; b = r; }
\* Inside the loop b is not zero, so div_rem returns Ok and unwrap_or's
\* default is never taken.
HGcdIter ==
    /\ op = "HInt::gcd" /\ pc = "loop"
    /\ ~HInt_is_zero(b)
    /\ IF HInt_div_rem_panics(a, b, overflow_checks)
       THEN pc' = "panic" /\ out' = Panic /\ UNCHANGED <<a, b, seen>>
       ELSE /\ a' = b
            /\ b' = HInt_div_rem(a, b).r
            /\ seen' = Remember(seen, <<a, b>>)
            /\ pc' = "loop" /\ UNCHANGED out
    /\ UNCHANGED <<overflow_checks, avx2, op, x, y, old_r, r, old_s, s, old_t, t>>

\* a.normalize()
HGcdReturn ==
    /\ op = "HInt::gcd" /\ pc = "loop"
    /\ HInt_is_zero(b)
    /\ IF overflow_checks /\ HInt_normalize_overflows(a)
       THEN pc' = "panic" /\ out' = Panic
       ELSE pc' = "done" /\ out' = Ret(HInt_normalize(a))
    /\ UNCHANGED <<overflow_checks, avx2, op, a, b, x, y, old_r, r, old_s, s, old_t, t, seen>>

NextH == HDivRem \/ HGcdIter \/ HGcdReturn

SpecH == InitH /\ [][NextH]_vars

----------------------------------------------------------------------------
(* Rank 8: OInt.  Two implementations: src/oint.rs stores the components    *)
(* as they are and divides with the integer `/`; src/types/oint.rs stores  *)
(* them doubled and divides with f64 rounding.  A value is the sequence of  *)
(* its fields a, b, c, d, e, f, g, h.  What the two files write alike is    *)
(* defined once, under the name OInt_...; what src/types/oint.rs writes    *)
(* differently has the name types_OInt_....                                 *)

\* The match arms of fano_plane::multiply_basis in src/oint.rs, as
\* <<i, j, sign, index>>.
OInt_match_arms ==
    { <<1, 2, 1, 4>>, <<2, 1, -1, 4>>,
      <<2, 3, 1, 5>>, <<3, 2, -1, 5>>,
      <<3, 1, 1, 6>>, <<1, 3, -1, 6>>,
      <<1, 4, -1, 2>>, <<4, 1, 1, 2>>,
      <<4, 2, 1, 1>>, <<2, 4, -1, 1>>,
      <<1, 5, 1, 3>>, <<5, 1, -1, 3>>,
      <<5, 3, 1, 1>>, <<3, 5, -1, 1>>,
      <<1, 6, -1, 5>>, <<6, 1, 1, 5>>,
      <<6, 5, 1, 1>>, <<5, 6, -1, 1>>,
      <<1, 7, 1, 6>>, <<7, 1, -1, 6>>,
      <<7, 6, 1, 1>>, <<6, 7, -1, 1>>,
      <<2, 5, -1, 7>>, <<5, 2, 1, 7>>,
      <<2, 6, 1, 7>>, <<6, 2, -1, 7>>,
      <<3, 4, 1, 7>>, <<4, 3, -1, 7>>,
      <<3, 7, -1, 4>>, <<7, 3, 1, 4>>,
      <<4, 5, 1, 6>>, <<5, 4, -1, 6>>,
      <<4, 6, -1, 5>>, <<6, 4, 1, 5>>,
      <<4, 7, 1, 2>>, <<7, 4, -1, 2>>,
      <<5, 7, -1, 4>>, <<7, 5, 1, 4>> }

\* src/types/oint.rs has the same arms and four more.
types_OInt_match_arms ==
    OInt_match_arms \cup
    { <<6, 3, 1, 7>>, <<3, 6, -1, 7>>,
      <<7, 2, 1, 5>>, <<2, 7, -1, 5>> }

\* multiply_basis(i, j) -> (sign, index); a pair without an arm gets (1, 0).
MultiplyBasis(arms, i, j) ==
    IF i = 0 THEN <<1, j>>
    ELSE IF j = 0 THEN <<1, i>>
    ELSE IF i = j THEN <<-1, 0>>
    ELSE IF \E m \in arms : m[1] = i /\ m[2] = j
         THEN LET m == CHOOSE m \in arms : m[1] = i /\ m[2] = j IN <<m[3], m[4]>>
         ELSE <<1, 0>>

OInt_multiply_basis == [i \in 0..7 |-> [j \in 0..7 |-> MultiplyBasis(OInt_match_arms, i, j)]]
types_OInt_multiply_basis ==
    [i \in 0..7 |-> [j \in 0..7 |-> MultiplyBasis(types_OInt_match_arms, i, j)]]

\* OInt::new of src/oint.rs keeps its arguments; that of src/types/oint.rs
\* doubles them.
OInt_new(c) == c
types_OInt_new(c) == [n \in 1..8 |-> WrapI32(c[n] * 2)]

OInt_zero == [n \in 1..8 |-> 0]

OInt_is_zero(self) == \A n \in 1..8 : self[n] = 0

OInt_conj(self) == [n \in 1..8 |-> IF n = 1 THEN self[n] ELSE NegI32(self[n])]
OInt_conj_overflows(self) == \E n \in 2..8 : self[n] = I32_MIN

OInt_neg(self) == [n \in 1..8 |-> NegI32(self[n])]
OInt_neg_overflows(self) == \E n \in 1..8 : self[n] = I32_MIN

OInt_add(self, other) == [n \in 1..8 |-> WrapI32(self[n] + other[n])]
OInt_sub(self, other) == [n \in 1..8 |-> WrapI32(self[n] - other[n])]
OInt_sub_overflows(self, other) == \E n \in 1..8 : ~InI32(self[n] - other[n])

\* The sum of the squares of the eight components, in i64.
RECURSIVE OInt_square_sum(_, _)
OInt_square_sum(self, n) ==
    IF n = 0 THEN 0 ELSE OInt_square_sum(self, n - 1) + self[n] * self[n]

OInt_norm_squared_overflows(self) == \E n \in 1..8 : ~InI64(OInt_square_sum(self, n))

\* (a2 + ... + h2) as U64
OInt_norm_squared(self) == AsU64(WrapI64(OInt_square_sum(self, 8)))
\* (sum / 4) as u64
types_OInt_norm_squared(self) == AsU64(TruncDiv(WrapI64(OInt_square_sum(self, 8)), 4))

\* for j in 0..8 { result[idx] += sa[i] * oa[j] * sign }, from j on.
\* acc.result is the array, indexed 0..7; acc.overflowed tells that some
\* `+=` left i64: a checked build panics there and the loop goes no further.
RECURSIVE OInt_mul_inner(_, _, _, _, _, _, _)
OInt_mul_inner(table, sa, oa, i, j, acc, checks) ==
    IF (acc.overflowed /\ checks) \/ j = 8 THEN acc
    ELSE LET sign == table[i][j][1]
             idx == table[i][j][2]
             v == acc.result[idx] + sa[i + 1] * oa[j + 1] * sign
         IN OInt_mul_inner(table, sa, oa, i, j + 1,
                [result |-> [acc.result EXCEPT ![idx] = WrapI64(v)],
                 overflowed |-> acc.overflowed \/ ~InI64(v)],
                checks)

\* for i in 0..8 { for j in 0..8 { ... } }, from i on.
RECURSIVE OInt_mul_loop(_, _, _, _, _, _)
OInt_mul_loop(table, sa, oa, i, acc, checks) ==
    IF (acc.overflowed /\ checks) \/ i = 8 THEN acc
    ELSE OInt_mul_loop(table, sa, oa, i + 1,
                       OInt_mul_inner(table, sa, oa, i, 0, acc, checks), checks)

\* let mut result = [0i64; 8]; and the loop.
OInt_mul_run(self, other, checks) ==
    OInt_mul_loop(OInt_multiply_basis, self, other, 0,
                  [result |-> [n \in 0..7 |-> 0], overflowed |-> FALSE], checks)
types_OInt_mul_run(self, other, checks) ==
    OInt_mul_loop(types_OInt_multiply_basis, self, other, 0,
                  [result |-> [n \in 0..7 |-> 0], overflowed |-> FALSE], checks)

\* OInt::new(result[0] as I32, ...)
OInt_mul_narrow(result) == [n \in 1..8 |-> WrapI32(result[n - 1])]
\* OInt { a: (result[0] / 2) as i32, ... }
types_OInt_mul_narrow(result) == [n \in 1..8 |-> WrapI32(TruncDiv(result[n - 1], 2))]

OInt_mul(self, other) == OInt_mul_narrow(OInt_mul_run(self, other, FALSE).result)
OInt_mul_overflows(self, other) == OInt_mul_run(self, other, TRUE).overflowed

types_OInt_mul(self, other) == types_OInt_mul_narrow(types_OInt_mul_run(self, other, FALSE).result)
types_OInt_mul_overflows(self, other) == types_OInt_mul_run(self, other, TRUE).overflowed

\* The body of div_rem in src/oint.rs for d nonzero: q = num_prod / (d_norm
\* as I32) with the integer division of i32, r = self - q * d.  fatal: a
\* division by zero or of i32::MIN by -1, which panics in every build;
\* overflowed: plain arithmetic left its type, which panics in a checked
\* build.
OInt_div_rem_run(self, d, checks) ==
    LET d_norm == WrapI32(AsI64(OInt_norm_squared(d)))
        np == OInt_mul_run(self, OInt_conj(d), checks)
        num_prod == OInt_mul_narrow(np.result)
        q == [n \in 1..8 |->
                IF d_norm = 0 THEN 0 ELSE WrapI32(TruncDiv(num_prod[n], d_norm))]
        qd == OInt_mul_run(q, d, checks)
        prod == OInt_mul_narrow(qd.result)
    IN [q |-> q,
        r |-> OInt_sub(self, prod),
        fatal |-> \/ d_norm = 0
                  \/ d_norm = -1 /\ \E n \in 1..8 : num_prod[n] = I32_MIN,
        overflowed |-> \/ OInt_norm_squared_overflows(d)
                       \/ OInt_conj_overflows(d)
                       \/ np.overflowed
                       \/ qd.overflowed
                       \/ OInt_sub_overflows(self, prod)]

OInt_div_rem_result(self, d, checks) ==
    IF OInt_is_zero(d) THEN Err("DivisionByZero")
    ELSE LET run == OInt_div_rem_run(self, d, checks)
         IN IF run.fatal \/ (checks /\ run.overflowed) THEN Panic
            ELSE Ok([q |-> run.q, r |-> run.r])

\* src/types/oint.rs: (((x as f64) / (d_norm as f64 * 2.0)).round() * 2.0) as i32
types_OInt_div_q(x_, d_norm) ==
    IF d_norm = 0
    THEN (IF x_ = 0 THEN 0 ELSE IF x_ > 0 THEN I32_MAX ELSE I32_MIN)
    ELSE SatI32(RoundDiv(x_, d_norm * 2) * 2)

\* The body of div_rem in src/types/oint.rs for d nonzero.
types_OInt_div_rem_run(self, d, checks) ==
    LET d_norm == AsI64(types_OInt_norm_squared(d))
        np == types_OInt_mul_run(self, OInt_conj(d), checks)
        num_prod == types_OInt_mul_narrow(np.result)
        q == [n \in 1..8 |-> types_OInt_div_q(num_prod[n], d_norm)]
        qd == types_OInt_mul_run(q, d, checks)
        prod == types_OInt_mul_narrow(qd.result)
    IN [q |-> q,
        r |-> OInt_sub(self, prod),
        overflowed |-> \/ OInt_norm_squared_overflows(d)
                       \/ OInt_conj_overflows(d)
                       \/ np.overflowed
                       \/ qd.overflowed
                       \/ OInt_sub_overflows(self, prod)]

types_OInt_div_rem_result(self, d, checks) ==
    IF OInt_is_zero(d) THEN Err("DivisionByZero")
    ELSE LET run == types_OInt_div_rem_run(self, d, checks)
         IN IF checks /\ run.overflowed THEN Panic
            ELSE Ok([q |-> run.q, r |-> run.r])

\* src/oint.rs: normalize returns self.
OInt_normalize(self) == self

\* src/types/oint.rs: normalize prefers a positive scalar part.
types_OInt_normalize(self) ==
    IF OInt_is_zero(self) THEN self
    ELSE IF self[1] > 0 THEN self
    ELSE IF OInt_neg(self)[1] > 0 THEN OInt_neg(self)
    ELSE self
types_OInt_normalize_overflows(self) ==
    ~OInt_is_zero(self) /\ ~(self[1] > 0) /\ OInt_neg_overflows(self)

----------------------------------------------------------------------------
(* Rank 8: the calls *)

\* c times the basis element e_(i-1).
OBasis(i, c) == [n \in 1..8 |-> IF n = i THEN c ELSE 0]

\* Arguments of OInt::new: a multiple of a basis element, or a sum of two.
OOneTerm == {OBasis(i, c) : i \in 1..8, c \in (-MaxO)..MaxO}
OTwoTerms == {OInt_add(u, v) : u \in OOneTerm, v \in OOneTerm}

OOps == {"OInt::mul", "OInt::div_rem", "OInt::gcd"}
types_OOps == {"types::OInt::mul", "types::OInt::div_rem", "types::OInt::gcd"}

InitO ==
    /\ overflow_checks \in BOOLEAN
    /\ avx2 = FALSE
    /\ op \in OOps \cup types_OOps
    /\ pc = (IF op \in {"OInt::gcd", "types::OInt::gcd"} THEN "loop" ELSE "call")
    /\ \E u \in OTwoTerms, v \in OOneTerm :
          IF op \in OOps
          THEN a = OInt_new(u) /\ b = OInt_new(v)
          ELSE a = types_OInt_new(u) /\ b = types_OInt_new(v)
    /\ x = None /\ y = None
    /\ old_r = None /\ r = None
    /\ old_s = None /\ s = None
    /\ old_t = None /\ t = None
    /\ out = None
    /\ seen = <<>>

\* a * b, src/oint.rs
OMul ==
    /\ op = "OInt::mul" /\ pc = "call"
    /\ \E run \in {OInt_mul_run(a, b, overflow_checks)} :
          IF overflow_checks /\ run.overflowed
          THEN pc' = "panic" /\ out' = Panic
          ELSE pc' = "done" /\ out' = Ret(OInt_mul_narrow(run.result))
    /\ UNCHANGED <<overflow_checks, avx2, op, a, b, x, y, old_r, r, old_s, s, old_t, t, seen>>

\* a * b, src/types/oint.rs
types_OMul ==
    /\ op = "types::OInt::mul" /\ pc = "call"
    /\ \E run \in {types_OInt_mul_run(a, b, overflow_checks)} :
          IF overflow_checks /\ run.overflowed
          THEN pc' = "panic" /\ out' = Panic
          ELSE pc' = "done" /\ out' = Ret(types_OInt_mul_narrow(run.result))
    /\ UNCHANGED <<overflow_checks, avx2, op, a, b, x, y, old_r, r, old_s, s, old_t, t, seen>>

\* a.div_rem(b), src/oint.rs
ODivRem ==
    /\ op = "OInt::div_rem" /\ pc = "call"
    /\ out' = OInt_div_rem_result(a, b, overflow_checks)
    /\ pc' = IF out'.tag = "Panic" THEN "panic" ELSE "done"
    /\ UNCHANGED <<overflow_checks, avx2, op, a, b, x, y, old_r, r, old_s, s, old_t, t, seen>>

\* a.div_rem(b), src/types/oint.rs
types_ODivRem ==
    /\ op = "types::OInt::div_rem" /\ pc = "call"
    /\ out' = types_OInt_div_rem_result(a, b, overflow_checks)
    /\ pc' = IF out'.tag = "Panic" THEN "panic" ELSE "done"
    /\ UNCHANGED <<overflow_checks, avx2, op, a, b, x, y, old_r, r, old_s, s, old_t, t, seen>>

\* One turn of the loop of OInt::gcd, src/oint.rs:
\* let (_, r) = a.div_rem(b).unwrap_or((OInt::zero(), a)); a = b; b = r.
\* The model follows a call for MaxIter turns.
OGcdIter ==
    /\ op = "OInt::gcd" /\ pc = "loop"
    /\ ~OInt_is_zero(b)
    /\ Len(seen) < MaxIter
    /\ \E res \in {OInt_div_rem_result(a, b, overflow_checks)} :
          IF res.tag = "Panic"
          THEN pc' = "panic" /\ out' = Panic /\ UNCHANGED <<a, b, seen>>
          ELSE /\ a' = b
               /\ b' = (IF res.tag = "Ok" THEN res.val.r ELSE a)
               /\ seen' = Remember(seen, <<a, b>>)
               /\ pc' = "loop" /\ UNCHANGED out
    /\ UNCHANGED <<overflow_checks, avx2, op, x, y, old_r, r, old_s, s, old_t, t>>

\* a.normalize(), src/oint.rs
OGcdReturn ==
    /\ op = "OInt::gcd" /\ pc = "loop"
    /\ OInt_is_zero(b)
    /\ pc' = "done" /\ out' = Ret(OInt_normalize(a))
    /\ UNCHANGED <<overflow_checks, avx2, op, a, b, x, y, old_r, r, old_s, s, old_t, t, seen>>

\* One turn of the loop of OInt::gcd, src/types/oint.rs.
types_OGcdIter ==
    /\ op = "types::OInt::gcd" /\ pc = "loop"
    /\ ~OInt_is_zero(b)
    /\ Len(seen) < MaxIter
    /\ \E res \in {types_OInt_div_rem_result(a, b, overflow_checks)} :
          IF res.tag = "Panic"
          THEN pc' = "panic" /\ out' = Panic /\ UNCHANGED <<a, b, seen>>
          ELSE /\ a' = b
               /\ b' = (IF res.tag = "Ok" THEN res.val.r ELSE a)
               /\ seen' = Remember(seen, <<a, b>>)
               /\ pc' = "loop" /\ UNCHANGED out
    /\ UNCHANGED <<overflow_checks, avx2, op, x, y, old_r, r, old_s, s, old_t, t>>

\* a.normalize(), src/types/oint.rs
types_OGcdReturn ==
    /\ op = "types::OInt::gcd" /\ pc = "loop"
    /\ OInt_is_zero(b)
    /\ IF overflow_checks /\ types_OInt_normalize_overflows(a)
       THEN pc' = "panic" /\ out' = Panic
       ELSE pc' = "done" /\ out' = Ret(types_OInt_normalize(a))
    /\ UNCHANGED <<overflow_checks, avx2, op, a, b, x, y, old_r, r, old_s, s, old_t, t, seen>>

NextO ==
    \/ OMul \/ ODivRem \/ OGcdIter \/ OGcdReturn
    \/ types_OMul \/ types_ODivRem \/ types_OGcdIter \/ types_OGcdReturn

SpecO == InitO /\ [][NextO]_vars

----------------------------------------------------------------------------
(* Multiplication, fractions and inverses: the calls.  One call of one     *)
(* function per behaviour; a, b and x hold its arguments.                   *)

U64_MAX == 2^(2 * I32_BITS) - 1
\* u64 arithmetic wraps in an unchecked build.
WrapU64(v) == v % (U64_MAX + 1)

\* Quaternions near the ends of the component range, all valid: stored
\* components of one parity.
HBig ==
    LET h == 2^(I32_BITS \div 2)
    IN {HInt_of(h, 0, 0, 0), HInt_of(h - 2, h - 2, h - 2, h - 2),
        HInt_of(I32_MAX - 1, 0, 0, 0), HInt_of(I32_MIN, I32_MIN, I32_MIN, I32_MIN)}

\* The arrays handed to zint_mul_arrays: at most two values each.
ZArrayValues == [a : {0, 1, I32_MAX}, b : {0, 1, I32_MAX}]
ZArrays == {<<>>} \cup {<<u>> : u \in ZArrayValues} \cup {<<u, v>> : u, v \in ZArrayValues}

\* self * rhs as a call: the product, or the panic of the range check (or,
\* in a checked build, of the widened arithmetic before it).
ZInt_mul_result(self, rhs, checks) ==
    IF ZInt_mul_panics(self, rhs)
       \/ (checks /\ (~InI64(self.a * rhs.a - self.b * rhs.b)
                      \/ ~InI64(self.a * rhs.b + self.b * rhs.a)))
    THEN Panic
    ELSE Ret(ZInt_mul(self, rhs))

\* self * other as a call: the product, narrowed without a range check; a
\* checked build panics when a widened sum leaves i64.
HInt_mul_result(self, other, checks) ==
    IF checks /\ HInt_mul_overflows(self, other) THEN Panic
    ELSE Ret(HInt_mul(self, other))

\* for i in 0..a.len() { out[i] = a[i] * b[i]; }, from element i on; a
\* panic at any element ends the call.
RECURSIVE zint_mul_arrays_loop(_, _, _, _, _)
zint_mul_arrays_loop(as, bs, i, res, checks) ==
    IF i > Len(as) THEN Ret(res)
    ELSE LET p == ZInt_mul_result(as[i], bs[i], checks)
         IN IF p.tag = "Panic" THEN Panic
            ELSE zint_mul_arrays_loop(as, bs, i + 1, Append(res, p.val), checks)

\* assert_eq!(a.len(), b.len()); and the loop.  The array `out` has the
\* length of a.
zint_mul_arrays(as, bs, checks) ==
    IF Len(as) # Len(bs) THEN Panic
    ELSE zint_mul_arrays_loop(as, bs, 1, <<>>, checks)

\* num_utils::integer_gcd on u64: while b != 0 { (a, b) = (b, a % b) }
RECURSIVE integer_gcd(_, _)
integer_gcd(m, n) == IF n = 0 THEN m ELSE integer_gcd(n, m % n)

\* ZIFraction { num, den }, HIFraction, OIFraction
Fraction(num, den) == [num |-> num, den |-> den]

\* ZInt::div_to_fraction: num_a and num_b are i64 and narrowed with `as I32`.
ZInt_div_to_fraction(self, d, checks) ==
    IF ZInt_is_zero(d) THEN Err("DivisionByZero")
    ELSE IF checks /\ (\/ ZInt_conj_overflows(d)
                       \/ ~InI64(self.a * ZInt_conj(d).a - self.b * ZInt_conj(d).b)
                       \/ ~InI64(self.a * ZInt_conj(d).b + self.b * ZInt_conj(d).a)
                       \/ ZInt_norm_squared_overflows(d))
    THEN Panic
    ELSE Ok(Fraction(ZInt_new(WrapI32(ZInt_div_num_a(self, d)), WrapI32(ZInt_div_num_b(self, d))),
                     ZInt_norm_squared(d)))

\* ZInt::inv_fraction: zero is answered with ZIntError::DivisionByZero.
ZInt_inv_fraction(self, checks) ==
    IF ZInt_is_zero(self) THEN Err("DivisionByZero")
    ELSE IF checks /\ (ZInt_conj_overflows(self) \/ ZInt_norm_squared_overflows(self)) THEN Panic
    ELSE Ok(Fraction(ZInt_conj(self), ZInt_norm_squared(self)))

\* ZInt::reduce_fraction: i32::abs overflows at i32::MIN; g as I64 may be
\* negative.
ZInt_reduce_fraction(frac, checks) ==
    IF checks /\ I32_MIN \in {frac.num.a, frac.num.b} THEN Panic
    ELSE LET g1 == integer_gcd(AsU64(AbsI32(frac.num.a)), AsU64(AbsI32(frac.num.b)))
             g == integer_gcd(g1, frac.den)
         IN IF g <= 1 THEN Ret(frac)
            ELSE Ret(Fraction(ZInt_new(WrapI32(TruncDiv(frac.num.a, AsI64(g))),
                                       WrapI32(TruncDiv(frac.num.b, AsI64(g)))),
                              frac.den \div g))

\* ZInt::inv_unit: for &unit in &assocs { if (self * unit) == (1, 0) ... },
\* from the i-th associate on.
RECURSIVE ZInt_inv_unit_loop(_, _, _)
ZInt_inv_unit_loop(self, i, checks) ==
    IF i > 4 THEN Err("NoInverse")
    ELSE LET p == ZInt_mul_result(self, ZInt_associates(self)[i], checks)
         IN IF p.tag = "Panic" THEN Panic
            ELSE IF p.val.a = 1 /\ p.val.b = 0 THEN Ok(ZInt_associates(self)[i])
            ELSE ZInt_inv_unit_loop(self, i + 1, checks)

ZInt_inv_unit(self, checks) ==
    IF checks /\ ZInt_norm_squared_overflows(self) THEN Panic
    ELSE IF ZInt_norm_squared(self) # 1 THEN Err("NoInverse")
    ELSE IF checks /\ ZInt_associates_overflows(self) THEN Panic
    ELSE ZInt_inv_unit_loop(self, 1, checks)

\* HInt::div_to_fraction: num: self
HInt_div_to_fraction(self, den, checks) ==
    IF HInt_is_zero(den) THEN Err("DivisionByZero")
    ELSE IF checks /\ HInt_norm_squared_overflows(den) THEN Panic
    ELSE Ok(Fraction(self, HInt_norm_squared(den)))

\* HInt::reduce_fraction: num: frac.num, den: frac.den / g
HInt_reduce_fraction(frac, checks) ==
    IF checks /\ I32_MIN \in {frac.num.a, frac.num.b, frac.num.c, frac.num.d} THEN Panic
    ELSE LET g1 == integer_gcd(AsU64(AbsI32(frac.num.a)), AsU64(AbsI32(frac.num.b)))
             g2 == integer_gcd(AsU64(AbsI32(frac.num.c)), AsU64(AbsI32(frac.num.d)))
             g == integer_gcd(integer_gcd(g1, g2), frac.den)
         IN IF g <= 1 THEN Ret(frac) ELSE Ret(Fraction(frac.num, frac.den \div g))

HInt_inv_fraction(self, checks) ==
    IF HInt_is_zero(self) THEN Err("NoInverse")
    ELSE IF checks /\ (HInt_conj_overflows(self) \/ HInt_norm_squared_overflows(self)) THEN Panic
    ELSE Ok(Fraction(HInt_conj(self), HInt_norm_squared(self)))

HInt_inv_unit(self, checks) ==
    IF checks /\ HInt_norm_squared_overflows(self) THEN Panic
    ELSE IF HInt_norm_squared(self) # 1 THEN Err("NoInverse")
    ELSE IF checks /\ HInt_conj_overflows(self) THEN Panic
    ELSE Ok(HInt_conj(self))

\* OInt::div_to_fraction, src/oint.rs: num: self
OInt_div_to_fraction(self, den, checks) ==
    IF OInt_is_zero(den) THEN Err("DivisionByZero")
    ELSE IF checks /\ OInt_norm_squared_overflows(den) THEN Panic
    ELSE Ok(Fraction(self, OInt_norm_squared(den)))

\* OInt::reduce_fraction, src/oint.rs: g = integer_gcd(frac.num.norm_squared(),
\* frac.den), and frac.den / g divides by zero when both are zero.
OInt_reduce_fraction(frac, checks) ==
    IF checks /\ OInt_norm_squared_overflows(frac.num) THEN Panic
    ELSE LET g == integer_gcd(OInt_norm_squared(frac.num), frac.den)
         IN IF g = 0 THEN Panic ELSE Ret(Fraction(frac.num, frac.den \div g))

\* for &comp in &components[1..] { g = integer_gcd(g, comp) }, up to the n-th
RECURSIVE types_OInt_components_gcd(_, _)
types_OInt_components_gcd(num, n) ==
    IF n = 1 THEN AsU64(AbsI32(num[1]))
    ELSE integer_gcd(types_OInt_components_gcd(num, n - 1), AsU64(AbsI32(num[n])))

\* OInt::reduce_fraction, src/types/oint.rs
types_OInt_reduce_fraction(frac, checks) ==
    IF checks /\ (\E n \in 1..8 : frac.num[n] = I32_MIN) THEN Panic
    ELSE LET g == integer_gcd(types_OInt_components_gcd(frac.num, 8), frac.den)
         IN IF g <= 1 THEN Ret(frac) ELSE Ret(Fraction(frac.num, frac.den \div g))

OInt_inv_fraction(self, checks) ==
    IF OInt_is_zero(self) THEN Err("NoInverse")
    ELSE IF checks /\ (OInt_conj_overflows(self) \/ OInt_norm_squared_overflows(self)) THEN Panic
    ELSE Ok(Fraction(OInt_conj(self), OInt_norm_squared(self)))

OInt_inv_unit(self, checks) ==
    IF checks /\ OInt_norm_squared_overflows(self) THEN Panic
    ELSE IF OInt_norm_squared(self) # 1 THEN Err("NoInverse")
    ELSE IF checks /\ OInt_conj_overflows(self) THEN Panic
    ELSE Ok(OInt_conj(self))

\* OInt::moufang_identity, src/oint.rs: ((a * b) * (c * a)) == (a * ((b * c) * a))
OInt_moufang_identity(u, v, w) ==
    OInt_mul(OInt_mul(u, v), OInt_mul(w, u)) = OInt_mul(u, OInt_mul(OInt_mul(v, w), u))
OInt_moufang_overflows(u, v, w) ==
    \/ OInt_mul_overflows(u, v) \/ OInt_mul_overflows(w, u) \/ OInt_mul_overflows(v, w)
    \/ OInt_mul_overflows(OInt_mul(u, v), OInt_mul(w, u))
    \/ OInt_mul_overflows(OInt_mul(v, w), u)
    \/ OInt_mul_overflows(u, OInt_mul(OInt_mul(v, w), u))

\* OInt::moufang_identity, src/types/oint.rs: left == right with left = ab *
\* ca and right = a * (bc * a)
types_OInt_moufang_identity(u, v, w) ==
    types_OInt_mul(types_OInt_mul(u, v), types_OInt_mul(w, u))
        = types_OInt_mul(u, types_OInt_mul(types_OInt_mul(v, w), u))
types_OInt_moufang_overflows(u, v, w) ==
    \/ types_OInt_mul_overflows(u, v) \/ types_OInt_mul_overflows(w, u)
    \/ types_OInt_mul_overflows(v, w)
    \/ types_OInt_mul_overflows(types_OInt_mul(u, v), types_OInt_mul(w, u))
    \/ types_OInt_mul_overflows(types_OInt_mul(v, w), u)
    \/ types_OInt_mul_overflows(u, types_OInt_mul(types_OInt_mul(v, w), u))

\* OInt::one(), OInt::e1() .. OInt::e7(); src/types/oint.rs stores them doubled.
OBasisElements == {OBasis(i, 1) : i \in 1..8}
types_OBasisElements == {OBasis(i, 2) : i \in 1..8}

\* Arguments of the calls: the valid quaternions of the model with the large
\* ones, an octonion whose squared norm passes 2^64, and fractions over the
\* denominators Dens.
HArgs == HValues \cup HBig
OLarge == [n \in 1..8 |-> IF n <= 4 THEN I32_MIN ELSE IF n = 5 THEN 1 ELSE 0]
OArgs == OTwoTerms \cup {OLarge}
Dens == (0..MaxDen) \cup {U64_MAX - 1, U64_MAX}

DivToFractionOps == {"ZInt::div_to_fraction", "HInt::div_to_fraction", "OInt::div_to_fraction"}
ReduceFractionOps == {"ZInt::reduce_fraction", "HInt::reduce_fraction",
                      "OInt::reduce_fraction", "types::OInt::reduce_fraction"}
InvFractionOps == {"ZInt::inv_fraction", "HInt::inv_fraction", "OInt::inv_fraction"}
InvUnitOps == {"ZInt::inv_unit", "HInt::inv_unit", "OInt::inv_unit"}

AOps == {"ZInt::mul", "HInt::mul", "zint_mul_arrays",
         "OInt::moufang_identity", "types::OInt::moufang_identity", "ZInt::div_exact"}
        \cup DivToFractionOps \cup ReduceFractionOps \cup InvFractionOps \cup InvUnitOps

\* The arguments <<a, b, x>> of a call of o.
AArgs(o) ==
    CASE o = "ZInt::mul" -> ZValues \X ZValues \X {None}
      [] o = "HInt::mul" -> (HValues \cup HBig) \X (HValues \cup HBig) \X {None}
      [] o = "zint_mul_arrays" -> ZArrays \X ZArrays \X {None}
      [] o = "OInt::moufang_identity" -> OBasisElements \X OBasisElements \X OBasisElements
      [] o = "types::OInt::moufang_identity" ->
            types_OBasisElements \X types_OBasisElements \X types_OBasisElements
      [] o \in {"ZInt::div_to_fraction", "ZInt::div_exact"} -> ZValues \X ZValues \X {None}
      [] o = "HInt::div_to_fraction" -> HArgs \X HArgs \X {None}
      [] o = "OInt::div_to_fraction" -> OTwoTerms \X OOneTerm \X {None}
      [] o = "ZInt::reduce_fraction" -> [num : ZValues, den : Dens] \X {None} \X {None}
      [] o = "HInt::reduce_fraction" -> [num : HArgs, den : Dens] \X {None} \X {None}
      [] o = "OInt::reduce_fraction" -> [num : OArgs, den : Dens] \X {None} \X {None}
      [] o = "types::OInt::reduce_fraction" ->
            [num : {types_OInt_new(u) : u \in OArgs}, den : Dens] \X {None} \X {None}
      [] o \in {"ZInt::inv_fraction", "ZInt::inv_unit"} -> ZValues \X {None} \X {None}
      [] o \in {"HInt::inv_fraction", "HInt::inv_unit"} -> HArgs \X {None} \X {None}
      [] o \in {"OInt::inv_fraction", "OInt::inv_unit"} -> OArgs \X {None} \X {None}

InitA ==
    /\ overflow_checks \in BOOLEAN
    /\ avx2 = FALSE
    /\ op \in AOps
    /\ pc = "call"
    /\ \E args \in AArgs(op) : a = args[1] /\ b = args[2] /\ x = args[3]
    /\ y = None
    /\ old_r = None /\ r = None
    /\ old_s = None /\ s = None
    /\ old_t = None /\ t = None
    /\ out = None
    /\ seen = <<>>

\* The call returns res, or panics.
Return(res) ==
    /\ out' = res
    /\ pc' = IF res.tag = "Panic" THEN "panic" ELSE "done"
    /\ UNCHANGED <<overflow_checks, avx2, op, a, b, x, y, old_r, r, old_s, s, old_t, t, seen>>

\* a * b, src/zint.rs
ZMul == op = "ZInt::mul" /\ pc = "call" /\ Return(ZInt_mul_result(a, b, overflow_checks))

\* a * b, src/hint.rs
HMul == op = "HInt::mul" /\ pc = "call" /\ Return(HInt_mul_result(a, b, overflow_checks))

\* zint_mul_arrays(&a, &b, &mut out), src/simd/simd_engine.rs
ZMulArrays ==
    op = "zint_mul_arrays" /\ pc = "call" /\ Return(zint_mul_arrays(a, b, overflow_checks))

OMoufang ==
    /\ op = "OInt::moufang_identity" /\ pc = "call"
    /\ Return(IF overflow_checks /\ OInt_moufang_overflows(a, b, x) THEN Panic
              ELSE Ret(OInt_moufang_identity(a, b, x)))

types_OMoufang ==
    /\ op = "types::OInt::moufang_identity" /\ pc = "call"
    /\ Return(IF overflow_checks /\ types_OInt_moufang_overflows(a, b, x) THEN Panic
              ELSE Ret(types_OInt_moufang_identity(a, b, x)))

\* x.div_exact(d), rank 2
ZDivExact ==
    /\ op = "ZInt::div_exact" /\ pc = "call"
    /\ Return(ZInt_div_exact(a, b, overflow_checks))

\* x.div_to_fraction(d), by the type of x
DivToFraction ==
    /\ op \in DivToFractionOps /\ pc = "call"
    /\ Return(CASE op = "ZInt::div_to_fraction" -> ZInt_div_to_fraction(a, b, overflow_checks)
                [] op = "HInt::div_to_fraction" -> HInt_div_to_fraction(a, b, overflow_checks)
                [] op = "OInt::div_to_fraction" -> OInt_div_to_fraction(a, b, overflow_checks))

\* reduce_fraction(frac), by the type of frac
ReduceFraction ==
    /\ op \in ReduceFractionOps /\ pc = "call"
    /\ Return(CASE op = "ZInt::reduce_fraction" -> ZInt_reduce_fraction(a, overflow_checks)
                [] op = "HInt::reduce_fraction" -> HInt_reduce_fraction(a, overflow_checks)
                [] op = "OInt::reduce_fraction" -> OInt_reduce_fraction(a, overflow_checks)
                [] op = "types::OInt::reduce_fraction" ->
                      types_OInt_reduce_fraction(a, overflow_checks))

\* x.inv_fraction(), by the type of x
InvFraction ==
    /\ op \in InvFractionOps /\ pc = "call"
    /\ Return(CASE op = "ZInt::inv_fraction" -> ZInt_inv_fraction(a, overflow_checks)
                [] op = "HInt::inv_fraction" -> HInt_inv_fraction(a, overflow_checks)
                [] op = "OInt::inv_fraction" -> OInt_inv_fraction(a, overflow_checks))

\* x.inv_unit(), by the type of x
InvUnit ==
    /\ op \in InvUnitOps /\ pc = "call"
    /\ Return(CASE op = "ZInt::inv_unit" -> ZInt_inv_unit(a, overflow_checks)
                [] op = "HInt::inv_unit" -> HInt_inv_unit(a, overflow_checks)
                [] op = "OInt::inv_unit" -> OInt_inv_unit(a, overflow_checks))

NextA ==
    \/ ZMul \/ HMul \/ ZMulArrays
    \/ OMoufang \/ types_OMoufang
    \/ ZDivExact \/ DivToFraction \/ ReduceFraction \/ InvFraction \/ InvUnit

SpecA == InitA /\ [][NextA]_vars

----------------------------------------------------------------------------
(* Constructors, normalize and norm_squared: the calls.  a holds the        *)
(* argument, or the tuple of the arguments.                                 *)

\* x.normalize(), rank 2, as a call: a checked build panics where a negation
\* or abs overflows.
ZInt_normalize_result(self, checks) ==
    IF checks /\ ZInt_normalize_overflows(self) THEN Panic ELSE Ret(ZInt_normalize(self))

NormSquaredOps == {"ZInt::norm_squared", "HInt::norm_squared", "OInt::norm_squared"}

MultiplyBasisOps == {"fano_plane::multiply_basis", "types::fano_plane::multiply_basis"}

UOps == {"HInt::from_halves", "ZInt::normalize", "ZInt::div_rem"}
        \cup NormSquaredOps \cup MultiplyBasisOps

\* The quaternions from_halves accepts, with small and with extreme components.
HWide ==
    {v \in [a : ZComp, b : ZComp, c : ZComp, d : ZComp] :
        HInt_from_halves(v.a, v.b, v.c, v.d).tag = "Ok"}

\* Octonions with every component at an end of the range, or 1.
OExtreme == [1..8 -> {I32_MIN, I32_MAX, 1}]

\* Components of the operands of div_rem: the small ones, the extremes, 7 and the
\* quarter of the range, where the norm of the divisor outgrows the f64 significand.
ZDivComp == ZComp \cup {-7, 7, 2^(I32_BITS - 2), 2^(I32_BITS - 2) + 1}

\* The arguments <<a, b>> of a call of o.
UArgs(o) ==
    CASE o = "HInt::from_halves" -> (ZComp \X ZComp \X ZComp \X ZComp) \X {None}
      [] o = "ZInt::normalize" -> ZValues \X {None}
      [] o = "ZInt::div_rem" -> [a : ZDivComp, b : ZDivComp] \X [a : ZDivComp, b : ZDivComp]
      [] o = "ZInt::norm_squared" -> ZValues \X {None}
      [] o = "HInt::norm_squared" -> HWide \X {None}
      [] o = "OInt::norm_squared" -> OExtreme \X {None}
      [] o \in MultiplyBasisOps -> (0..7) \X (0..7)

InitU ==
    /\ overflow_checks \in BOOLEAN
    /\ avx2 = FALSE
    /\ op \in UOps
    /\ pc = "call"
    /\ \E args \in UArgs(op) : a = args[1] /\ b = args[2]
    /\ x = None /\ y = None
    /\ old_r = None /\ r = None
    /\ old_s = None /\ s = None
    /\ old_t = None /\ t = None
    /\ out = None
    /\ seen = <<>>

\* HInt::from_halves(a, b, c, d): a Result, no arithmetic that can overflow
HFromHalves ==
    /\ op = "HInt::from_halves" /\ pc = "call"
    /\ Return(HInt_from_halves(a[1], a[2], a[3], a[4]))

ZNormalize ==
    /\ op = "ZInt::normalize" /\ pc = "call"
    /\ Return(ZInt_normalize_result(a, overflow_checks))

\* a.norm_squared(): the squares are summed in i64 with plain `+`.
NormSquared ==
    /\ op \in NormSquaredOps /\ pc = "call"
    /\ Return(CASE op = "ZInt::norm_squared" ->
                     IF overflow_checks /\ ZInt_norm_squared_overflows(a) THEN Panic
                     ELSE Ret(ZInt_norm_squared(a))
                [] op = "HInt::norm_squared" ->
                     IF overflow_checks /\ HInt_norm_squared_overflows(a) THEN Panic
                     ELSE Ret(HInt_norm_squared(a))
                [] op = "OInt::norm_squared" ->
                     IF overflow_checks /\ OInt_norm_squared_overflows(a) THEN Panic
                     ELSE Ret(OInt_norm_squared(a)))

\* The table of the function under execution.
BasisTable(o) ==
    IF o = "fano_plane::multiply_basis" THEN OInt_multiply_basis ELSE types_OInt_multiply_basis

\* multiply_basis(i, j) with i = a, j = b
MultiplyBasisCall ==
    /\ op \in MultiplyBasisOps /\ pc = "call"
    /\ Return(Ret(BasisTable(op)[a][b]))

NextU ==
    \/ HFromHalves \/ ZNormalize \/ ZDivRem \/ NormSquared \/ MultiplyBasisCall

SpecU == InitU /\ [][NextU]_vars

----------------------------------------------------------------------------
(* The batch engine: src/simd/simd_engine.rs *)

\* The longest arrays of the model.
MaxLen == 5

ZInt_neg(self) == [a |-> NegI32(self.a), b |-> NegI32(self.b)]

HInt_add(self, other) ==
    HInt_of(WrapI32(self.a + other.a), WrapI32(self.b + other.b),
            WrapI32(self.c + other.c), WrapI32(self.d + other.d))
HInt_add_overflows(self, other) ==
    \/ ~InI32(self.a + other.a) \/ ~InI32(self.b + other.b)
    \/ ~InI32(self.c + other.c) \/ ~InI32(self.d + other.d)

OInt_add_overflows(self, other) == \E n \in 1..8 : ~InI32(self[n] + other[n])

\* #[repr(C)]: the components of a value of rank rk in memory order, and back.
Fields(rk, v) ==
    CASE rk = 2 -> << v.a, v.b >>
      [] rk = 4 -> << v.a, v.b, v.c, v.d >>
      [] rk = 8 -> v
Struct(rk, l) ==
    CASE rk = 2 -> ZInt_new(l[1], l[2])
      [] rk = 4 -> HInt_of(l[1], l[2], l[3], l[4])
      [] rk = 8 -> OInt_new(l)

\* The number of values of rank rk in one 256-bit vector: 4, 2, 1.
BatchWidth(rk) == 8 \div rk

\* _mm256_loadu_si256 of 8 / rk values, and _mm256_storeu_si256 into as many.
mm256_loadu_si256(rk, chunk) ==
    [n \in 1..8 |-> Fields(rk, chunk[((n - 1) \div rk) + 1])[((n - 1) % rk) + 1]]
mm256_storeu_si256(rk, vec) ==
    [k \in 1..BatchWidth(rk) |-> Struct(rk, SubSeq(vec, (k - 1) * rk + 1, k * rk))]

mm256_setzero_si256 == [n \in 1..8 |-> 0]
mm256_add_epi32(u, v) == [n \in 1..8 |-> WrapI32(u[n] + v[n])]
mm256_sub_epi32(u, v) == [n \in 1..8 |-> WrapI32(u[n] - v[n])]
\* Each lane of u negated, zeroed or kept as the lane of mask is negative, zero or positive.
mm256_sign_epi32(u, mask) ==
    [n \in 1..8 |-> IF mask[n] < 0 THEN WrapI32(-u[n]) ELSE IF mask[n] = 0 THEN 0 ELSE u[n]]

\* The masks of the conj batches: _mm256_setr_epi32(...).
conj_mask(rk) ==
    CASE rk = 2 -> << 1, -1, 1, -1, 1, -1, 1, -1 >>
      [] rk = 4 -> << 1, -1, -1, -1, 1, -1, -1, -1 >>
      [] rk = 8 -> << 1, -1, -1, -1, -1, -1, -1, -1 >>

\* The *_batch_avx2 functions: load, one instruction, store.
batch_avx2(kind, rk, as, bs) ==
    LET a_vec == mm256_loadu_si256(rk, as)
    IN mm256_storeu_si256(rk,
           CASE kind = "add" -> mm256_add_epi32(a_vec, mm256_loadu_si256(rk, bs))
             [] kind = "sub" -> mm256_sub_epi32(a_vec, mm256_loadu_si256(rk, bs))
             [] kind = "neg" -> mm256_sub_epi32(mm256_setzero_si256, a_vec)
             [] kind = "conj" -> mm256_sign_epi32(a_vec, conj_mask(rk)))

\* The scalar operators: u + v, u - v, -u, u.conj(), u * v.  Rank 2 adds, subtracts
\* and negates with wrapping_add, wrapping_sub, wrapping_neg; every other one is
\* plain arithmetic, which panics on overflow in a build with overflow checks.
scalar_op(kind, rk, u, v, checks) ==
    CASE kind = "add" /\ rk = 2 -> Ret(ZInt_add(u, v))
      [] kind = "sub" /\ rk = 2 -> Ret(ZInt_sub(u, v))
      [] kind = "neg" /\ rk = 2 -> Ret(ZInt_neg(u))
      [] kind = "conj" /\ rk = 2 ->
            IF checks /\ ZInt_conj_overflows(u) THEN Panic ELSE Ret(ZInt_conj(u))
      [] kind = "mul" /\ rk = 2 -> ZInt_mul_result(u, v, checks)
      [] kind = "add" /\ rk = 4 ->
            IF checks /\ HInt_add_overflows(u, v) THEN Panic ELSE Ret(HInt_add(u, v))
      [] kind = "sub" /\ rk = 4 ->
            IF checks /\ HInt_sub_overflows(u, v) THEN Panic ELSE Ret(HInt_sub(u, v))
      [] kind = "neg" /\ rk = 4 ->
            IF checks /\ HInt_neg_overflows(u) THEN Panic ELSE Ret(HInt_neg(u))
      [] kind = "conj" /\ rk = 4 ->
            IF checks /\ HInt_conj_overflows(u) THEN Panic ELSE Ret(HInt_conj(u))
      [] kind = "mul" /\ rk = 4 -> HInt_mul_result(u, v, checks)
      [] kind = "add" /\ rk = 8 ->
            IF checks /\ OInt_add_overflows(u, v) THEN Panic ELSE Ret(OInt_add(u, v))
      [] kind = "sub" /\ rk = 8 ->
            IF checks /\ OInt_sub_overflows(u, v) THEN Panic ELSE Ret(OInt_sub(u, v))
      [] kind = "neg" /\ rk = 8 ->
            IF checks /\ OInt_neg_overflows(u) THEN Panic ELSE Ret(OInt_neg(u))
      [] kind = "conj" /\ rk = 8 ->
            IF checks /\ OInt_conj_overflows(u) THEN Panic ELSE Ret(OInt_conj(u))
      [] kind = "mul" /\ rk = 8 ->
            IF checks /\ OInt_mul_overflows(u, v) THEN Panic ELSE Ret(OInt_mul(u, v))

\* The fallback of a batch: [a[0] op b[0], a[1] op b[1], ...], left to right.
batch_scalar(kind, rk, as, bs, checks) ==
    LET each == [k \in 1..BatchWidth(rk) |-> scalar_op(kind, rk, as[k], bs[k], checks)]
    IN IF \E k \in 1..BatchWidth(rk) : each[k].tag = "Panic" THEN Panic
       ELSE Ret([k \in 1..BatchWidth(rk) |-> each[k].val])

\* zint_add_batch, ..., oint_conj_batch: the vector path when the CPU has AVX2,
\* else the scalar operators; the mul batches are scalar.
batch(kind, rk, as, bs, checks, has_avx2) ==
    IF has_avx2 /\ kind # "mul" THEN Ret(batch_avx2(kind, rk, as, bs))
    ELSE batch_scalar(kind, rk, as, bs, checks)

\* The functions of the engine: name, operation, rank, and whether the function
\* takes fixed-width batches or whole arrays.
Engine ==
    { << "zint_add_batch", "add", 2, "batch" >>, << "zint_sub_batch", "sub", 2, "batch" >>,
      << "zint_neg_batch", "neg", 2, "batch" >>, << "zint_conj_batch", "conj", 2, "batch" >>,
      << "zint_mul_batch", "mul", 2, "batch" >>,
      << "hint_add_batch", "add", 4, "batch" >>, << "hint_sub_batch", "sub", 4, "batch" >>,
      << "hint_neg_batch", "neg", 4, "batch" >>, << "hint_conj_batch", "conj", 4, "batch" >>,
      << "hint_mul_batch", "mul", 4, "batch" >>,
      << "oint_add_batch", "add", 8, "batch" >>, << "oint_sub_batch", "sub", 8, "batch" >>,
      << "oint_neg_batch", "neg", 8, "batch" >>, << "oint_conj_batch", "conj", 8, "batch" >>,
      << "oint_mul_batch", "mul", 8, "batch" >>,
      << "zint_add_arrays", "add", 2, "arrays" >>, << "zint_sub_arrays", "sub", 2, "arrays" >>,
      << "zint_mul_arrays", "mul", 2, "arrays" >>,
      << "hint_add_arrays", "add", 4, "arrays" >>, << "hint_sub_arrays", "sub", 4, "arrays" >>,
      << "hint_mul_arrays", "mul", 4, "arrays" >>,
      << "oint_add_arrays", "add", 8, "arrays" >>, << "oint_sub_arrays", "sub", 8, "arrays" >>,
      << "oint_mul_arrays", "mul", 8, "arrays" >> }

VOps == {e[1] : e \in Engine}
Kind(o) == (CHOOSE e \in Engine : e[1] = o)[2]
Rank(o) == (CHOOSE e \in Engine : e[1] = o)[3]
Form(o) == (CHOOSE e \in Engine : e[1] = o)[4]

\* Pairs of operands of each rank: small ones, a pair whose sum leaves the component
\* range, and a pair whose difference, negation and conjugate leave it.
VPairs(rk) ==
    CASE rk = 2 -> { << ZInt_new(1, 2), ZInt_new(3, -1) >>,
                     << ZInt_new(I32_MAX, -3), ZInt_new(1, 2) >>,
                     << ZInt_new(2, I32_MIN), ZInt_new(0, 1) >> }
      [] rk = 4 -> { << HInt_of(2, 4, -6, 0), HInt_of(2, 2, 2, 2) >>,
                     << HInt_of(I32_MAX, 1, -3, 1), HInt_of(1, 1, 1, 1) >>,
                     << HInt_of(0, I32_MIN, 0, 2), HInt_of(2, 2, 0, 0) >> }
      [] rk = 8 -> { << OInt_new(<< 1, 2, 0, -1, 0, 3, 0, 0 >>), OInt_new(<< 2, 0, 1, 0, 0, -1, 0, 1 >>) >>,
                     << OInt_new(<< I32_MAX, 0, 0, 0, 0, 0, 0, 1 >>), OInt_new(<< 1, 0, 0, 0, 0, 0, 0, 0 >>) >>,
                     << OInt_new(<< 0, 0, 0, I32_MIN, 0, 0, 0, 0 >>), OInt_new(<< 0, 0, 0, 1, 0, 0, 0, 0 >>) >> }

\* The sequences of n pairs of rank rk.
PairSeqs(rk, n) == [1..n -> VPairs(rk)]

\* The arguments of a call of o: a batch takes BatchWidth values on each side; an
\* array function takes slices a and b of any length up to MaxLen, b as long as a
\* or one shorter, and the slice out, as long as a.
VArgs(o) ==
    IF Form(o) = "batch"
    THEN { [as |-> [k \in 1..BatchWidth(Rank(o)) |-> ps[k][1]],
            bs |-> [k \in 1..BatchWidth(Rank(o)) |-> ps[k][2]]] :
           ps \in PairSeqs(Rank(o), BatchWidth(Rank(o))) }
    ELSE UNION { { [as |-> [k \in 1..n |-> ps[k][1]], bs |-> [k \in 1..m |-> ps[k][2]]] :
                   ps \in PairSeqs(Rank(o), n) } : << n, m >> \in {nm \in (0..MaxLen) \X (0..MaxLen) : nm[2] \in {nm[1], nm[1] - 1}} }

Zero(rk) == CASE rk = 2 -> ZInt_zero [] rk = 4 -> HInt_zero [] rk = 8 -> OInt_zero

InitV ==
    /\ overflow_checks \in BOOLEAN
    /\ avx2 \in BOOLEAN
    /\ op \in VOps
    /\ pc = "call"
    /\ \E args \in VArgs(op) :
          /\ a = args.as /\ b = args.bs
          /\ out = IF Form(op) = "batch" THEN None ELSE [k \in 1..Len(args.as) |-> Zero(Rank(op))]
    /\ x = None /\ y = None
    /\ old_r = None /\ r = None
    /\ old_s = None /\ s = None
    /\ old_t = None /\ t = None
    /\ seen = <<>>

\* A call of a fixed-width batch function.
VBatch ==
    /\ Form(op) = "batch" /\ pc = "call"
    /\ Return(batch(Kind(op), Rank(op), a, b, overflow_checks, avx2))

\* The number of turns of the first loop of an array function: len / width chunks
\* for zint and hint add and sub; for oint add and sub every element when the CPU
\* has AVX2 (and then the function returns) and none otherwise; none for mul.
chunks(o, len, has_avx2) ==
    IF Kind(o) = "mul" THEN 0
    ELSE IF Rank(o) = 8 THEN (IF has_avx2 THEN len ELSE 0)
    ELSE len \div BatchWidth(Rank(o))

\* assert_eq!(a.len(), b.len()); assert_eq!(a.len(), out.len());
VArraysEnter ==
    /\ Form(op) = "arrays" /\ pc = "call"
    /\ IF Len(a) # Len(b) \/ Len(a) # Len(out)
       THEN pc' = "panic" /\ x' = x
       ELSE pc' = "chunks" /\ x' = 0
    /\ UNCHANGED <<overflow_checks, avx2, op, a, b, y, old_r, r, old_s, s, old_t, t, out, seen>>

\* for i in 0..chunks: one batch, copied to out[idx..idx+width].  The vector loop
\* of oint_add_arrays and oint_sub_arrays is the AVX2 batch of one value.
VArraysChunk ==
    /\ Form(op) = "arrays" /\ pc = "chunks" /\ x < chunks(op, Len(a), avx2)
    /\ LET w == BatchWidth(Rank(op))
           idx == x * w
           result == batch(Kind(op), Rank(op), SubSeq(a, idx + 1, idx + w),
                           SubSeq(b, idx + 1, idx + w), overflow_checks, avx2)
       IN IF result.tag = "Panic"
          THEN pc' = "panic" /\ UNCHANGED <<x, out, seen>>
          ELSE /\ out' = [k \in 1..Len(out) |->
                             IF idx < k /\ k <= idx + w THEN result.val[k - idx] ELSE out[k]]
               /\ seen' = seen \o [k \in 1..w |-> idx + k - 1]
               /\ x' = x + 1
               /\ pc' = pc
    /\ UNCHANGED <<overflow_checks, avx2, op, a, b, y, old_r, r, old_s, s, old_t, t>>

\* The first loop is over: the tail starts at chunks * width (after the vector
\* loop of oint_add_arrays and oint_sub_arrays, at len: the function returns).
VArraysChunksEnd ==
    /\ Form(op) = "arrays" /\ pc = "chunks" /\ x = chunks(op, Len(a), avx2)
    /\ pc' = "tail"
    /\ x' = x * BatchWidth(Rank(op))
    /\ UNCHANGED <<overflow_checks, avx2, op, a, b, y, old_r, r, old_s, s, old_t, t, out, seen>>

\* for i in (chunks * width)..len { out[i] = a[i] op b[i]; }
VArraysTail ==
    /\ Form(op) = "arrays" /\ pc = "tail" /\ x < Len(a)
    /\ LET result == scalar_op(Kind(op), Rank(op), a[x + 1], b[x + 1], overflow_checks)
       IN IF result.tag = "Panic"
          THEN pc' = "panic" /\ UNCHANGED <<x, out, seen>>
          ELSE /\ out' = [out EXCEPT ![x + 1] = result.val]
               /\ seen' = Append(seen, x)
               /\ x' = x + 1
               /\ pc' = pc
    /\ UNCHANGED <<overflow_checks, avx2, op, a, b, y, old_r, r, old_s, s, old_t, t>>

VArraysReturn ==
    /\ Form(op) = "arrays" /\ pc = "tail" /\ x = Len(a)
    /\ pc' = "done"
    /\ UNCHANGED <<overflow_checks, avx2, op, a, b, x, y, old_r, r, old_s, s, old_t, t, out, seen>>

NextV ==
    \/ VBatch
    \/ VArraysEnter \/ VArraysChunk \/ VArraysChunksEnd \/ VArraysTail \/ VArraysReturn

SpecV == InitV /\ [][NextV]_vars

\* x.norm_squared() as a call, src/zint.rs: a checked build panics when the
\* sum of the squares leaves i64.
ZInt_norm_squared_result(self, checks) ==
    IF checks /\ ZInt_norm_squared_overflows(self) THEN Panic
    ELSE Ret(ZInt_norm_squared(self))

\* x.norm_squared() as a call, src/hint.rs
HInt_norm_squared_result(self, checks) ==
    IF checks /\ HInt_norm_squared_overflows(self) THEN Panic
    ELSE Ret(HInt_norm_squared(self))

----------------------------------------------------------------------------
(* Rank 4: sequences of operations on constructed values *)

\* The longest sequence of operations the model follows.
MaxSteps == 3

\* The values the sequences start from and take as operands: HInt::new(1, 0, 0, 0),
\* HInt::new(0, 1, 0, 0) and from_halves of (1, 1, 1, 1), (-3, 1, -1, 1) and of
\* components at the ends of the range.
HSeeds ==
    {HInt_new(1, 0, 0, 0), HInt_new(0, 1, 0, 0)}
    \cup {HInt_from_halves(c[1], c[2], c[3], c[4]).val :
            c \in { << 1, 1, 1, 1 >>, << -3, 1, -1, 1 >>,
                    << I32_MAX, 1, 1, 1 >>, << I32_MIN, 0, 2, 0 >> }}

HKinds == {"add", "sub", "neg", "conj", "mul", "div_rem", "normalize"}

\* The values an operation on u (and v) gives, as results of the call: div_rem
\* gives its quotient and its remainder.
HInt_results(kind, u, v, checks) ==
    CASE kind = "add" ->
            {IF checks /\ HInt_add_overflows(u, v) THEN Panic ELSE Ret(HInt_add(u, v))}
      [] kind = "sub" ->
            {IF checks /\ HInt_sub_overflows(u, v) THEN Panic ELSE Ret(HInt_sub(u, v))}
      [] kind = "neg" ->
            {IF checks /\ HInt_neg_overflows(u) THEN Panic ELSE Ret(HInt_neg(u))}
      [] kind = "conj" ->
            {IF checks /\ HInt_conj_overflows(u) THEN Panic ELSE Ret(HInt_conj(u))}
      [] kind = "mul" -> {HInt_mul_result(u, v, checks)}
      [] kind = "normalize" ->
            {IF checks /\ HInt_normalize_overflows(u) THEN Panic ELSE Ret(HInt_normalize(u))}
      [] kind = "div_rem" ->
            LET res == HInt_div_rem_result(u, v, checks)
            IN IF res.tag = "Ok" THEN {Ret(res.val.q), Ret(res.val.r)} ELSE {res}

InitP ==
    /\ overflow_checks \in BOOLEAN
    /\ avx2 = FALSE
    /\ op = "HInt::from_halves"
    /\ pc = "run"
    /\ a \in HSeeds /\ b \in HSeeds
    /\ x = 0
    /\ y = None
    /\ old_r = None /\ r = None
    /\ old_s = None /\ s = None
    /\ old_t = None /\ t = None
    /\ out = None
    /\ seen = <<>>

\* One operation on the two values at hand, in either order: the value it gives
\* takes the place of a; y keeps the operands.
PStep ==
    /\ pc = "run" /\ x < MaxSteps
    /\ \E kind \in HKinds : \E args \in {<< a, b >>, << b, a >>} :
          \E res \in HInt_results(kind, args[1], args[2], overflow_checks) :
             /\ op' = kind
             /\ out' = res
             /\ y' = args
             /\ pc' = IF res.tag = "Panic" THEN "panic" ELSE "run"
             /\ a' = IF res.tag = "Ret" THEN res.val ELSE a
    /\ x' = x + 1
    /\ UNCHANGED <<overflow_checks, avx2, b, old_r, r, old_s, s, old_t, t, seen>>

\* One turn of the loop of gcd: let (_, r) = a.div_rem(b).unwrap_or(..); a = b; b = r;
PGcdTurn ==
    /\ pc = "run" /\ x < MaxSteps /\ ~HInt_is_zero(b)
    /\ op' = "gcd"
    /\ y' = << a, b >>
    /\ IF HInt_div_rem_panics(a, b, overflow_checks)
       THEN pc' = "panic" /\ out' = Panic /\ UNCHANGED <<a, b>>
       ELSE /\ a' = b
            /\ b' = HInt_div_rem(a, b).r
            /\ out' = Ret(b)
            /\ pc' = pc
    /\ x' = x + 1
    /\ UNCHANGED <<overflow_checks, avx2, old_r, r, old_s, s, old_t, t, seen>>

\* a.norm_squared()
PNormSquared ==
    /\ pc = "run" /\ x < MaxSteps
    /\ op' = "norm_squared"
    /\ y' = << a, b >>
    /\ out' = HInt_norm_squared_result(a, overflow_checks)
    /\ pc' = IF out'.tag = "Panic" THEN "panic" ELSE "run"
    /\ x' = x + 1
    /\ UNCHANGED <<overflow_checks, avx2, a, b, old_r, r, old_s, s, old_t, t, seen>>

NextP ==
    \/ PStep \/ PGcdTurn \/ PNormSquared

SpecP == InitP /\ [][NextP]_vars

----------------------------------------------------------------------------
(* The Gaussian integers themselves, without machine widths: what the      *)
(* properties below are stated in.                                         *)

GAdd(u, v) == [a |-> u.a + v.a, b |-> u.b + v.b]
GMul(u, v) == [a |-> u.a * v.a - u.b * v.b, b |-> u.a * v.b + u.b * v.a]
GNorm(u) == u.a * u.a + u.b * u.b
GUnits == {[a |-> 1, b |-> 0], [a |-> -1, b |-> 0], [a |-> 0, b |-> 1], [a |-> 0, b |-> -1]}
GInRange(u) == InI32(u.a) /\ InI32(u.b)

\* conj(d), x * conj(d) and q * d, for the nearest q, all fit a component.
ProductsInRange(xx, d) ==
    LET cd == [a |-> d.a, b |-> -d.b]
        num == GMul(xx, cd)
        q == [a |-> RoundDiv(num.a, GNorm(d)), b |-> RoundDiv(num.b, GNorm(d))]
    IN GInRange(cd) /\ GInRange(num) /\ GInRange(GMul(q, d))

ZDivReturned == op = "ZInt::div_rem" /\ pc \in {"done", "panic"}
ZGcdEnded == op = "ZInt::gcd" /\ pc \in {"done", "panic"}
ZXgcdReturned == op = "ZInt::xgcd" /\ pc = "done"

\* s*a + t*b of a returned triple, in the Gaussian integers.
Combination == GAdd(GMul(out.val[2], a), GMul(out.val[3], b))

C4_GcdTerminates ==
    [][op = "ZInt::gcd" =>
          /\ pc' \in {"loop", "done"}
          /\ (pc = "loop" /\ pc' = "loop") => GNorm(y') < GNorm(y)]_vars

\* C6: rank 2, for every x, gcd(x, zero) and gcd(zero, x) both equal
\* normalize(x); the result has the squared norm of x and, for x # 0,
\* x.div_exact(result) succeeds.
C6_GcdWithZero ==
    /\ (ZGcdEnded /\ b = ZInt_zero) =>
          /\ out = Ret(ZInt_normalize(a))
          /\ GNorm(out.val) = GNorm(a)
          /\ a # ZInt_zero => ZInt_div_exact(a, out.val, overflow_checks).tag = "Ok"
    /\ (ZGcdEnded /\ a = ZInt_zero) =>
          /\ out = Ret(ZInt_normalize(b))
          /\ GNorm(out.val) = GNorm(b)
          /\ b # ZInt_zero => ZInt_div_exact(b, out.val, overflow_checks).tag = "Ok"

\* C7: rank 2, for every x and y, gcd(x, y) and gcd(y, x) are the same value.
C7_GcdSymmetric ==
    ZGcdEnded => out = ZInt_gcd(b, a, overflow_checks)

\* C8: rank 2, the triple (g, s, t) of xgcd(z1, z2) satisfies
\* s*z1 + t*z2 = g exactly.
C8_BezoutExact ==
    ZXgcdReturned => Combination = out.val[1]

\* C9: rank 2, the triple (g, s, t) of xgcd(a, b) has s*a + t*b an associate
\* of gcd(a, b) and g = gcd(a, b), the early return for b = 0 included.
C9_BezoutAssociate ==
    ZXgcdReturned =>
        LET g == ZInt_gcd(a, b, overflow_checks)
        IN /\ g.tag = "Ret"
           /\ \E u \in GUnits : Combination = GMul(u, g.val)
           /\ out.val[1] = g.val

----------------------------------------------------------------------------
(* Rank 4 properties.  A stored value u stands for the quaternion u / 2, so  *)
(* 4 * N(u / 2) is the sum of the squares of the stored components and the   *)
(* stored form of a product is half the bilinear sum of the stored factors.  *)

HNorm4(u) == HInt_norm_sum(u)

\* q*d + r = x in the quaternions, on stored values: q (x) d = 2 * (x - r).
HEuclid(q, d, rr, xx) ==
    LET w == HInt_mul_sums(q, d)
    IN /\ w.a = 2 * (xx.a - rr.a)
       /\ w.b = 2 * (xx.b - rr.b)
       /\ w.c = 2 * (xx.c - rr.c)
       /\ w.d = 2 * (xx.d - rr.d)

HDivReturned == op = "HInt::div_rem" /\ pc \in {"done", "panic"}

\* C2: rank 4, for every pair of valid values x, d with d # 0, div_rem(x, d)
\* returns Ok((q, r)) with q*d + r = x and norm_squared(r) < norm_squared(d).
C2_DivRemEuclidean ==
    (HDivReturned /\ b # HInt_zero) =>
        /\ out.tag = "Ok"
        /\ HEuclid(out.val.q, b, out.val.r, a)
        /\ HNorm4(out.val.r) < HNorm4(b)

\* C5: rank 4, gcd(a, b) terminates for every pair of valid inputs: at the
\* head of the loop the pair (a, b) is never one the loop has met before.
C5_GcdNeverRevisits ==
    (op = "HInt::gcd" /\ pc = "loop") =>
        \A i \in 1..Len(seen) : seen[i] # <<a, b>>

----------------------------------------------------------------------------
(* Rank 8 properties, stated with the product, the sum and the squared norm *)
(* of the implementation under test, as the tests of the repository do.     *)

ODivReturned == op \in {"OInt::div_rem", "types::OInt::div_rem"} /\ pc \in {"done", "panic"}

OMulReturned == op \in {"OInt::mul", "types::OInt::mul"} /\ pc \in {"done", "panic"}

\* q*d + r = x and N(r) < N(d), in src/oint.rs
OEuclid(q, d, rr, xx) ==
    /\ OInt_add(OInt_mul(q, d), rr) = xx
    /\ OInt_norm_squared(rr) < OInt_norm_squared(d)

\* q*d + r = x and N(r) < N(d), in src/types/oint.rs
types_OEuclid(q, d, rr, xx) ==
    /\ OInt_add(types_OInt_mul(q, d), rr) = xx
    /\ types_OInt_norm_squared(rr) < types_OInt_norm_squared(d)

\* The product of the call stays in the component range: every entry of
\* the wide array is an i32 when it is narrowed.
OProductInRange ==
    IF op = "OInt::mul"
    THEN \A n \in 0..7 : InI32(OInt_mul_run(a, b, FALSE).result[n])
    ELSE \A n \in 0..7 : InI32(TruncDiv(types_OInt_mul_run(a, b, FALSE).result[n], 2))

\* C3: rank 8, for every x and every d # 0, div_rem(x, d) returns Ok((q, r))
\* with q*d + r = x and norm_squared(r) < norm_squared(d), in src/oint.rs
\* and in src/types/oint.rs.
C3_DivRemEuclidean ==
    (ODivReturned /\ ~OInt_is_zero(b)) =>
        /\ out.tag = "Ok"
        /\ IF op = "OInt::div_rem"
           THEN OEuclid(out.val.q, b, out.val.r, a)
           ELSE types_OEuclid(out.val.q, b, out.val.r, a)

\* C10: rank 8, for every x, y whose product stays in the component range,
\* norm_squared(x*y) = norm_squared(x) * norm_squared(y); the product of two
\* nonzero values is never zero.
C10_NormMultiplicative ==
    (OMulReturned /\ OProductInRange) =>
        /\ out.tag = "Ret"
        /\ IF op = "OInt::mul"
           THEN OInt_norm_squared(out.val) = OInt_norm_squared(a) * OInt_norm_squared(b)
           ELSE types_OInt_norm_squared(out.val) =
                    types_OInt_norm_squared(a) * types_OInt_norm_squared(b)

----------------------------------------------------------------------------
(* Properties of multiplication *)

\* n1 * n2 in u64, as the tests write it: z1.norm_squared() * z2.norm_squared()
NormProduct(n1, n2, checks) ==
    IF n1.tag = "Panic" \/ n2.tag = "Panic" THEN Panic
    ELSE IF checks /\ n1.val * n2.val > U64_MAX THEN Panic
    ELSE Ret(WrapU64(n1.val * n2.val))

\* The stored components of the exact quaternion product: half the sums.
HExactProduct(u, v) ==
    LET w == HInt_mul_sums(u, v)
    IN HInt_of(w.a \div 2, w.b \div 2, w.c \div 2, w.d \div 2)

HInRange(u) == InI32(u.a) /\ InI32(u.b) /\ InI32(u.c) /\ InI32(u.d)

ZMulEnded == op = "ZInt::mul" /\ pc \in {"done", "panic"}
HMulEnded == op = "HInt::mul" /\ pc \in {"done", "panic"}

\* C11: rank 2 and rank 4, for every pair of valid values x, y whose product
\* stays in the component range, norm_squared(x*y) = norm_squared(x) *
\* norm_squared(y).
C11_NormMultiplicative ==
    /\ (ZMulEnded /\ GInRange(GMul(a, b))) =>
          /\ out.tag = "Ret"
          /\ ZInt_norm_squared_result(out.val, overflow_checks).tag = "Ret"
          /\ ZInt_norm_squared_result(out.val, overflow_checks) =
                NormProduct(ZInt_norm_squared_result(a, overflow_checks),
                            ZInt_norm_squared_result(b, overflow_checks), overflow_checks)
    /\ (HMulEnded /\ HInRange(HExactProduct(a, b))) =>
          /\ out.tag = "Ret"
          /\ HInt_norm_squared_result(out.val, overflow_checks).tag = "Ret"
          /\ HInt_norm_squared_result(out.val, overflow_checks) =
                NormProduct(HInt_norm_squared_result(a, overflow_checks),
                            HInt_norm_squared_result(b, overflow_checks), overflow_checks)

\* Some product of the call has a component outside the i32 range.
ZMulOverflows ==
    IF op = "ZInt::mul" THEN ~GInRange(GMul(a, b))
    ELSE /\ Len(a) = Len(b)
         /\ \E i \in 1..Len(a) : ~GInRange(GMul(a[i], b[i]))

\* C17: a multiplication whose widened result leaves the range of a
\* component is reported to the caller as the error value Overflow and never
\* ends the process.
C17_OverflowIsRecoverable ==
    (op \in {"ZInt::mul", "zint_mul_arrays"} /\ pc \in {"done", "panic"} /\ ZMulOverflows) =>
        out = Err("Overflow")

\* C18: rank 2 and rank 4, whenever x*y returns a value, every component of
\* it is the exact component of the product: nothing is wrapped or truncated.
C18_NarrowingIsChecked ==
    /\ (op = "ZInt::mul" /\ pc = "done") => out.val = GMul(a, b)
    /\ (op = "HInt::mul" /\ pc = "done") => out.val = HExactProduct(a, b)

\* C12: rank 8, (a*b)*(c*a) = a*((b*c)*a) for every triple of basis elements
\* e0 .. e7: moufang_identity returns true on each of the 512 triples.
C12_MoufangOnBasis ==
    (op \in {"OInt::moufang_identity", "types::OInt::moufang_identity"} /\ pc \in {"done", "panic"}) =>
        out = Ret(TRUE)

----------------------------------------------------------------------------
(* Properties of fractions and inverses *)

\* The conjugates, without machine widths.
GConj(u) == [a |-> u.a, b |-> -u.b]
HConjExact(u) == HInt_of(u.a, -u.b, -u.c, -u.d)

\* C13: at every rank, div_to_fraction(x, d) with d nonzero returns the
\* fraction with the numerator x * conj(d) and the denominator
\* norm_squared(d), and with d zero it returns the error DivisionByZero.
C13_DivToFraction ==
    (op \in DivToFractionOps /\ pc \in {"done", "panic"}) =>
        CASE op = "ZInt::div_to_fraction" ->
                 IF ZInt_is_zero(b) THEN out = Err("DivisionByZero")
                 ELSE out = Ok(Fraction(GMul(a, GConj(b)), GNorm(b)))
          [] op = "HInt::div_to_fraction" ->
                 IF HInt_is_zero(b) THEN out = Err("DivisionByZero")
                 ELSE out = Ok(Fraction(HExactProduct(a, HConjExact(b)), HNorm4(b) \div 4))
          [] op = "OInt::div_to_fraction" ->
                 IF OInt_is_zero(b) THEN out = Err("DivisionByZero")
                 ELSE out = Ok(Fraction(OInt_mul(a, OInt_conj(b)), OInt_square_sum(b, 8)))

\* C14: rank 2, for every fraction f with den > 0, reduce_fraction(f)
\* returns a fraction whose denominator divides f.den and whose numerator
\* components and denominator have the gcd 1, and reducing it again leaves
\* it as it is.
C14_ReduceFraction ==
    (op = "ZInt::reduce_fraction" /\ pc \in {"done", "panic"} /\ a.den > 0) =>
        /\ out.tag = "Ret"
        /\ a.den % out.val.den = 0
        /\ integer_gcd(integer_gcd(Abs(out.val.num.a), Abs(out.val.num.b)), out.val.den) = 1
        /\ ZInt_reduce_fraction(out.val, overflow_checks) = out

\* The gcd of the absolute values of the first n components of a tuple.
RECURSIVE GcdOfAbs(_, _)
GcdOfAbs(c, n) == IF n = 0 THEN 0 ELSE integer_gcd(GcdOfAbs(c, n - 1), Abs(c[n]))

\* The components of a stored quaternion as a tuple.
HTuple(u) == <<u.a, u.b, u.c, u.d>>

\* C15: rank 4 and rank 8, when g, the gcd of the absolute values of every
\* numerator component and of the denominator, is above 1, reduce_fraction
\* divides every numerator component and the denominator by g (fractions
\* with a positive denominator).
C15_ReduceDividesNumerator ==
    /\ (op = "HInt::reduce_fraction" /\ pc \in {"done", "panic"} /\ a.den > 0) =>
          LET g == integer_gcd(GcdOfAbs(HTuple(a.num), 4), a.den)
          IN g > 1 => out = Ret(Fraction(HInt_of(TruncDiv(a.num.a, g), TruncDiv(a.num.b, g),
                                                 TruncDiv(a.num.c, g), TruncDiv(a.num.d, g)),
                                         a.den \div g))
    /\ (op \in {"OInt::reduce_fraction", "types::OInt::reduce_fraction"}
          /\ pc \in {"done", "panic"} /\ a.den > 0) =>
          LET g == integer_gcd(GcdOfAbs(a.num, 8), a.den)
          IN g > 1 => out = Ret(Fraction([n \in 1..8 |-> TruncDiv(a.num[n], g)], a.den \div g))

\* d divides u in the Gaussian integers: u * conj(d) is a multiple of N(d).
GDivides(d, u) ==
    /\ GMul(u, GConj(d)).a % GNorm(d) = 0
    /\ GMul(u, GConj(d)).b % GNorm(d) = 0

\* C16: rank 2, div_exact(x, d) returns DivisionByZero when d is zero;
\* otherwise it returns Ok(q) with q * d = x exactly when d divides x in the
\* Gaussian integers, and NotDivisible when it does not.
C16_DivExact ==
    (op = "ZInt::div_exact" /\ pc \in {"done", "panic"}) =>
        IF ZInt_is_zero(b) THEN out = Err("DivisionByZero")
        ELSE IF GDivides(b, a) THEN out.tag = "Ok" /\ GMul(out.val, b) = a
        ELSE out = Err("NotDivisible")

\* C19: at every rank, inv_fraction(x) signals NoInverse when x is zero, and
\* for x nonzero it returns the fraction with the numerator conj(x) and the
\* denominator norm_squared(x).
C19_InvFraction ==
    (op \in InvFractionOps /\ pc \in {"done", "panic"}) =>
        CASE op = "ZInt::inv_fraction" ->
                 IF ZInt_is_zero(a) THEN out = Err("NoInverse")
                 ELSE out = Ok(Fraction(GConj(a), GNorm(a)))
          [] op = "HInt::inv_fraction" ->
                 IF HInt_is_zero(a) THEN out = Err("NoInverse")
                 ELSE out = Ok(Fraction(HConjExact(a), HNorm4(a) \div 4))
          [] op = "OInt::inv_fraction" ->
                 IF OInt_is_zero(a) THEN out = Err("NoInverse")
                 ELSE out = Ok(Fraction([n \in 1..8 |-> IF n = 1 THEN a[n] ELSE -a[n]],
                                        OInt_square_sum(a, 8)))

\* The squared norms, without machine widths: N(x) of the value stored.
HNormExact(u) == HNorm4(u) \div 4
ONormExact(u) == OInt_square_sum(u, 8)

\* C20: at every rank, inv_unit(x) returns NoInverse when norm_squared(x) is
\* not 1, and when it is 1 it returns Ok(conj(x)) with x * inv_unit(x) = one
\* (at rank 2 the search over the associates returns exactly conj(x)).
C20_InvUnit ==
    (op \in InvUnitOps /\ pc \in {"done", "panic"}) =>
        CASE op = "ZInt::inv_unit" ->
                 IF GNorm(a) # 1 THEN out = Err("NoInverse")
                 ELSE out = Ok(GConj(a)) /\ GMul(a, out.val) = ZInt_one
          [] op = "HInt::inv_unit" ->
                 IF HNormExact(a) # 1 \/ HNorm4(a) % 4 # 0 THEN out = Err("NoInverse")
                 ELSE out = Ok(HConjExact(a)) /\ HInt_mul_result(a, out.val, overflow_checks) = Ret(HInt_new(1, 0, 0, 0))
          [] op = "OInt::inv_unit" ->
                 IF ONormExact(a) # 1 THEN out = Err("NoInverse")
                 ELSE out = Ok(OInt_conj(a)) /\ OInt_mul(a, out.val) = OBasis(1, 1)

----------------------------------------------------------------------------
(* Properties of the constructors and of normalize *)

\* An integer is odd: in the integers, whatever its sign.
Odd(n) == n % 2 = 1

\* C21: HInt::from_halves(a, b, c, d) returns InvalidHalfInteger exactly
\* when the four arguments do not all have the same parity, a negative odd
\* argument being odd; otherwise it returns Ok with the arguments stored
\* unchanged.
C21_FromHalvesParity ==
    (op = "HInt::from_halves" /\ pc \in {"done", "panic"}) =>
        IF Odd(a[1]) = Odd(a[2]) /\ Odd(a[1]) = Odd(a[3]) /\ Odd(a[1]) = Odd(a[4])
        THEN out = Ok(HInt_of(a[1], a[2], a[3], a[4]))
        ELSE out = Err("InvalidHalfInteger")

\* from_halves has accepted four odd arguments of both signs.
C21_Witness ==
    /\ op = "HInt::from_halves" /\ pc = "done"
    /\ a[1] < 0 /\ Odd(a[1]) /\ a[2] > 0 /\ Odd(a[2])
    /\ out.tag = "Ok"

ZNormalized == op = "ZInt::normalize" /\ pc \in {"done", "panic"}

\* normalize returned an associate of its argument in the first quadrant,
\* one that normalize leaves as it is.
FirstQuadrantAssociate ==
    /\ out.tag = "Ret"
    /\ \E u \in GUnits : out.val = GMul(a, u)
    /\ out.val.a > 0 /\ out.val.b >= 0
    /\ ZInt_normalize_result(out.val, overflow_checks) = out

C23_NormalizeOnAxes ==
    (ZNormalized /\ ~ZInt_is_zero(a)) =>
        /\ (a.b = 0 /\ a.a > 0) => out = Ret(a)
        /\ (a.b = 0 /\ a.a < 0) => out = Ret(ZInt_new(-a.a, 0))
        /\ (a.a = 0 /\ a.b > 0) => out = Ret(a)
        /\ (a.a = 0 /\ a.b < 0) => out = Ret(ZInt_new(-a.b, 0))

----------------------------------------------------------------------------
(* Rounding of the quotient of div_rem, rank 2 *)

\* The quotient and remainder of x by d with each component of x * conj(d) / N(d)
\* rounded to the nearest integer, halves away from zero, in the Gaussian integers.
GNearestDivRem(xx, d) ==
    LET num == GMul(xx, [a |-> d.a, b |-> -d.b])
        q == [a |-> NearestInteger(num.a, GNorm(d)), b |-> NearestInteger(num.b, GNorm(d))]
        qd == GMul(q, d)
    IN [q |-> q, r |-> [a |-> xx.a - qd.a, b |-> xx.b - qd.b]]

\* C24: rank 2, for every x and every d # 0, div_rem(x, d) returns the quotient whose
\* components are those of x * conj(d) / norm_squared(d) rounded to the nearest
\* integer, exact halves away from zero, and the remainder r = x - q * d.
C24_DivRemRoundsToNearest ==
    (ZDivReturned /\ ~ZInt_is_zero(b)) => out = Ok(GNearestDivRem(a, b))

\* C24 for operands whose products x * conj(d) and q * d fit a component: there the
\* numerators are exact in f64 and the quotient is the nearest one.
C24_NearestInsideRange ==
    (ZDivReturned /\ ~ZInt_is_zero(b) /\ ProductsInRange(a, b)) => out = Ok(GNearestDivRem(a, b))

----------------------------------------------------------------------------
(* The batch engine against the scalar operators *)

\* a[k] op b[k] with the scalar operator of the array function under execution.
ScalarAt(k) == scalar_op(Kind(op), Rank(op), a[k], b[k], overflow_checks)

ArraysReturned == Form(op) = "arrays" /\ pc = "done"
BatchReturned == Form(op) = "batch" /\ Kind(op) # "mul" /\ pc \in {"done", "panic"}

\* C25: for every length n, also below the batch width and not a multiple of it,
\* after zint_, hint_ or oint_ add_, sub_ or mul_arrays(a, b, out) every out[i] is
\* the scalar operator applied to a[i] and b[i], and every index 0 .. n-1 has been
\* written exactly once.
C25_ArraysMatchScalar ==
    ArraysReturned =>
        /\ \A k \in 1..Len(a) : ScalarAt(k) = Ret(out[k])
        /\ seen = [k \in 1..Len(a) |-> k - 1]

\* C25 in a build without overflow checks, where no scalar sum or difference panics.
C25_ArraysMatchWrappingScalar ==
    (ArraysReturned /\ ~overflow_checks) =>
        /\ \A k \in 1..Len(a) : ScalarAt(k) = Ret(out[k])
        /\ seen = [k \in 1..Len(a) |-> k - 1]

\* C26: every fixed-width add, sub, neg and conj batch of ranks 2, 4 and 8 returns
\* the same output on the AVX2 path and on the scalar fallback, for all component
\* values, also where the sum, difference or negation leaves the component range.
C26_BatchPathsAgree ==
    BatchReturned =>
        /\ out = Ret(batch_avx2(Kind(op), Rank(op), a, b))
        /\ out = batch_scalar(Kind(op), Rank(op), a, b, overflow_checks)

\* C26 in a build without overflow checks, and in every build for the rank-2 add,
\* sub and neg batches, whose scalar operators wrap.
C26_WrappingPathsAgree ==
    (BatchReturned /\ (~overflow_checks \/ (Rank(op) = 2 /\ Kind(op) # "conj"))) =>
        /\ out = Ret(batch_avx2(Kind(op), Rank(op), a, b))
        /\ out = batch_scalar(Kind(op), Rank(op), a, b, overflow_checks)

----------------------------------------------------------------------------
(* The squared norm at the ends of the component range *)

\* The stored components of a quaternion are twice the real ones: the squared
\* norm is a quarter of the sum of their squares.
ExactNormSquared ==
    CASE op = "ZInt::norm_squared" -> GNorm(a)
      [] op = "HInt::norm_squared" -> HNormExact(a)
      [] op = "OInt::norm_squared" -> ONormExact(a)

\* C27: norm_squared returns the exact sum of the squares of the components for
\* every choice of components in every rank: the widened accumulator never
\* overflows, also with every component at an end of the range.
C27_NormSquaredExact ==
    (op \in NormSquaredOps /\ pc \in {"done", "panic"}) => out = Ret(ExactNormSquared)

\* C27 for components above i32::MIN in rank 2: the sum of two squares fits i64.
C27_NormSquaredExactRank2 ==
    (op = "ZInt::norm_squared" /\ pc \in {"done", "panic"}
       /\ ~(a.a = I32_MIN /\ a.b = I32_MIN)) => out = Ret(ExactNormSquared)

----------------------------------------------------------------------------
(* The gcd of rank 2 as a greatest common divisor *)

\* u.div_exact(c) succeeds, in the build under execution.
DivExactSucceeds(u, c) == ZInt_div_exact(u, c, overflow_checks).tag = "Ok"

\* g divides a and b, and every common divisor c of a and b among the values of
\* the model divides g.
GreatestCommonDivisor(g) ==
    /\ DivExactSucceeds(a, g) /\ DivExactSucceeds(b, g)
    /\ \A c \in ZValues :
          (DivExactSucceeds(a, c) /\ DivExactSucceeds(b, c)) => DivExactSucceeds(g, c)

\* C28: rank 2, for every a, b not both zero, g = ZInt::gcd(a, b) is a greatest
\* common divisor in terms of div_exact, and gcd(zero, zero) = zero.
C28_GcdIsGreatest ==
    ZGcdEnded =>
        /\ out.tag = "Ret"
        /\ IF ZInt_is_zero(a) /\ ZInt_is_zero(b) THEN out.val = ZInt_zero
           ELSE GreatestCommonDivisor(out.val)

\* C28 for arguments with components in -MaxZ .. MaxZ.
C28_GcdIsGreatestSmall ==
    (ZGcdEnded /\ {a.a, a.b, b.a, b.b} \subseteq (-MaxZ)..MaxZ) =>
        /\ out.tag = "Ret"
        /\ IF ZInt_is_zero(a) /\ ZInt_is_zero(b) THEN out.val = ZInt_zero
           ELSE GreatestCommonDivisor(out.val)

----------------------------------------------------------------------------
(* The basis table of rank 8 as a signed Latin square *)

\* The target index of e_i * e_j in the table of the function under execution.
Target(i, j) == BasisTable(op)[i][j][2]

\* The entry (sign, k) returned for (i, j) = (a, b): k occurs nowhere else in row i
\* nor in column j, and for distinct imaginary units k is a third imaginary unit
\* and the product in the other order has the opposite sign.
LatinEntry ==
    /\ \A j \in (0..7) \ {b} : Target(a, j) # out.val[2]
    /\ \A i \in (0..7) \ {a} : Target(i, b) # out.val[2]
    /\ (a # 0 /\ b # 0 /\ a # b) =>
          /\ out.val[2] \notin {0, a, b}
          /\ BasisTable(op)[b][a] = << -out.val[1], out.val[2] >>

\* C29: the rank-8 basis table is a signed Latin square, in src/oint.rs and in
\* src/types/oint.rs.
C29_SignedLatinSquare ==
    (op \in MultiplyBasisOps /\ pc = "done") => LatinEntry

\* C29 for the table of src/types/oint.rs alone.
C29_TypesTableLatin ==
    (op = "types::fano_plane::multiply_basis" /\ pc = "done") => LatinEntry

----------------------------------------------------------------------------
(* Validity of the quaternions along sequences of operations *)

\* The four stored components have one parity.
HValid(v) == HInt_from_halves(v.a, v.b, v.c, v.d).tag = "Ok"

\* The widened components of the product of the operands are even.
HProductEven ==
    LET w == HInt_mul_sums(y[1], y[2])
    IN \A c \in {w.a, w.b, w.c, w.d} : WrapI64(c) % 2 = 0

\* The sum of the squares of the operand is a multiple of 4.
HNormDivides == WrapI64(HInt_norm_sum(y[1])) % 4 = 0

\* C30: from values built by HInt::new or a successful from_halves, every sequence
\* of add, sub, neg, conj, mul, div_rem, normalize and gcd steps yields only values
\* whose four stored components have one parity; the widened components halved
\* in mul are even and the sum of squares divided by 4 in norm_squared is exact.
C30_ValidityPreserved ==
    (pc \in {"run", "panic"}) =>
        /\ HValid(a) /\ HValid(b)
        /\ (op = "mul") => HProductEven
        /\ (op = "norm_squared") => HNormDivides

\* C30 without div_rem: on valid values every other operation gives a valid value,
\* the widened components of their product are even and the sum of squares is a
\* multiple of 4.
C30_ValidityOutsideDivRem ==
    [][(HValid(a) /\ HValid(b) /\ op' \notin {"div_rem", "gcd"})
         => (/\ HValid(a') /\ HValid(b')
             /\ \A c \in {HInt_mul_sums(a, b).a, HInt_mul_sums(a, b).b,
                           HInt_mul_sums(a, b).c, HInt_mul_sums(a, b).d} : WrapI64(c) % 2 = 0
             /\ WrapI64(HInt_norm_sum(a)) % 4 = 0)]_vars

============================================================================
